---- MODULE Spec2Model ----
(***************************************************************************)
(* A model of the Nucleus safety kernel (pikoninc/nucleus):                *)
(*   Kernel.run_plan  -> plan schema gate -> PolicyEngine.evaluate         *)
(*                    -> Executor.execute -> ToolRegistry.call -> trace    *)
(* and of the path utilities the policy rests on (nucleus/core/scope.py).  *)
(*                                                                         *)
(* Strings that the code inspects character by character (paths) are       *)
(* sequences of one-character strings; identifiers the code only compares  *)
(* for equality (tool ids, event types, error codes) are TLA+ strings.     *)
(* A JSON object is a function from its keys, so "key in dict" is          *)
(* key \in DOMAIN d.  A JSON value whose type the code tests is a tagged   *)
(* record [t |-> "str" | "int", v |-> ...].                                *)
(***************************************************************************)
EXTENDS Integers, Sequences, FiniteSets, TLC

VARIABLES
    tools,         \* the ToolRegistry the Kernel was built with: "builtin" or "host"
    plan,          \* the Plan handed to Kernel.run_plan
    ctx,           \* the RuntimeContext of the run
    pc,            \* position of the run inside run_plan / execute
    trace,         \* the JSONL trace file: the events appended so far, in write order
    policyResult,  \* the PolicyResult of PolicyEngine.evaluate (NoResult before)
    stepIdx,       \* Executor.execute: index of the step the for-loop is at
    invoked,       \* step indices whose tool impl has been called, in call order
    effects,       \* step indices whose tool call ran to completion (its effects are on the host)
    results,       \* Executor.execute: the local list `results`
    raised,        \* the exception run_plan ended with (NoError while none)
    returned,      \* TRUE once run_plan returned {plan_id, results}
    scopePath,     \* is_within_any_root: the argument path_str
    scopeRoots,    \* is_within_any_root: the argument roots (already normalized)
    scopeResult,   \* is_within_any_root: "none" before the call, then "true" / "false"
    planner,       \* the Planner whose plan() is called: "none", "nucleus" or "plugin"
    intent,        \* Planner.plan: the argument intent
    planOut,       \* Planner.plan: the outcome (the plan's intent, or the error raised)
    file,          \* the trace file at trace_path: its characters
    readBack,      \* Replay.iter_events: the events yielded
    clock,         \* the host's UTC wall clock, in ticks
    stamps,        \* the ts values of the events TraceEmitter.emit built in this run, in write order
    hostState,     \* the host a tool acts on: filesystem entries, notifications sent, connections opened
    toolOut,       \* the outcome of a tool's run(args, dry_run): the dict returned or the exception raised
    tidy,          \* desktop-tidy planner: the config, the entries and the moves built from them
    pluginReg,     \* PluginRegistry: _manifests_by_plugin_id, _plugin_id_by_intent_id and the last load
    contracts,     \* kernel._CORE_CONTRACTS and the threads that are inside _core_contracts()
    fsRun,         \* a run_plan over a filesystem with symbolic links: the tree, the steps, the calls made
    movers         \* concurrent fs.move calls on one filesystem: the files and each call's position

kernelVars == <<tools, plan, ctx, pc, trace, policyResult, stepIdx, invoked, effects, results, raised, returned>>
scopeVars == <<scopePath, scopeRoots, scopeResult>>
plannerVars == <<planner, intent, planOut>>
fileVars == <<file, readBack>>
hostVars == <<clock, stamps, hostState, toolOut>>
tidyVars == <<tidy>>
envVars == <<pluginReg, contracts, fsRun, movers>>
vars == <<tools, plan, ctx, pc, trace, policyResult, stepIdx, invoked, effects, results, raised, returned,
          scopePath, scopeRoots, scopeResult, planner, intent, planOut, file, readBack,
          clock, stamps, hostState, toolOut, tidy, pluginReg, contracts, fsRun, movers>>

----------------------------------------------------------------------------
(* Bounds of the model.                                                    *)

\* longest plan explored (number of steps)
MaxSteps == 2
\* deepest path explored by the scope specification (number of components)
MaxDepth == 2
\* longest roots list explored by the scope specification
MaxRoots == 1

----------------------------------------------------------------------------
(* Strings and paths (nucleus/core/scope.py).                              *)

\* os.sep on POSIX
Sep == <<"/">>

\* str.startswith
StartsWith(s, p) == Len(s) >= Len(p) /\ SubSeq(s, 1, Len(p)) = p

\* the process's working directory and the user's home: what Path.resolve and
\* os.path.expanduser read from the host
Cwd == <<"/", "w">>
Home == <<"/", "h">>

\* os.path.expanduser: a leading "~" (alone or before "/") becomes the home directory
ExpandUser(s) ==
    IF Len(s) >= 1 /\ s[1] = "~" /\ (Len(s) = 1 \/ s[2] = "/")
    THEN Home \o SubSeq(s, 2, Len(s))
    ELSE s

\* the components of a path string: split at "/", empty components dropped
RECURSIVE SplitFrom(_, _, _)
SplitFrom(s, k, cur) ==
    IF k > Len(s) THEN (IF cur = <<>> THEN <<>> ELSE <<cur>>)
    ELSE IF s[k] = "/" THEN (IF cur = <<>> THEN <<>> ELSE <<cur>>) \o SplitFrom(s, k + 1, <<>>)
    ELSE SplitFrom(s, k + 1, Append(cur, s[k]))

Components(s) == SplitFrom(s, 1, <<>>)

\* Path.resolve on a filesystem without symlinks: "." is dropped, ".." pops
\* the last component (and stays at the root)
RECURSIVE ResolveFrom(_, _, _)
ResolveFrom(comps, k, acc) ==
    IF k > Len(comps) THEN acc
    ELSE IF comps[k] = <<".">> THEN ResolveFrom(comps, k + 1, acc)
    ELSE IF comps[k] = <<".", ".">>
         THEN ResolveFrom(comps, k + 1, IF acc = <<>> THEN acc ELSE SubSeq(acc, 1, Len(acc) - 1))
    ELSE ResolveFrom(comps, k + 1, Append(acc, comps[k]))

\* str(Path): "/" for the root, else "/c1/c2/..."
RECURSIVE JoinFrom(_, _)
JoinFrom(comps, k) ==
    IF k > Len(comps) THEN <<>> ELSE Sep \o comps[k] \o JoinFrom(comps, k + 1)

PathStr(comps) == IF comps = <<>> THEN Sep ELSE JoinFrom(comps, 1)

\* the components of the canonical form of a path string
CanonComponents(p) ==
    LET e == ExpandUser(p)
        a == IF StartsWith(e, Sep) THEN e ELSE Cwd \o Sep \o e
    IN ResolveFrom(Components(a), 1, <<>>)

\* _normalize_path: expand "~", make absolute, resolve; the Path is kept as its str()
\* (inputs of the model hold no "$", so os.path.expandvars leaves them alone)
NormalizePath(p) == PathStr(CanonComponents(p))

\* normalize_roots: non-empty string entries, normalized, in order
RECURSIVE NormalizeRootsFrom(_, _)
NormalizeRootsFrom(fs_roots, k) ==
    IF k > Len(fs_roots) THEN <<>>
    ELSE IF fs_roots[k] = <<>> THEN NormalizeRootsFrom(fs_roots, k + 1)
    ELSE <<NormalizePath(fs_roots[k])>> \o NormalizeRootsFrom(fs_roots, k + 1)

NormalizeRoots(fs_roots) == NormalizeRootsFrom(fs_roots, 1)

\* the ancestor test by substring, without the separator: /t2 passes for root /t
WithinRootSubstring(p, root) == p = root \/ StartsWith(p, root)

\* the ancestor test of is_within_any_root for one root:
\* str(p) == str(root) or str(p).startswith(str(root) + os.sep)
WithinRoot(p, root) == p = root \/ StartsWith(p, root \o Sep)

\* is_within_any_root(path_str, roots)
IsWithinAnyRoot(path_str, roots) ==
    LET p == NormalizePath(path_str)
    IN \E k \in 1..Len(roots) : WithinRoot(p, roots[k])

----------------------------------------------------------------------------
(* JSON values and the tool registry (nucleus/registry/tool_registry.py,   *)
(* nucleus/bootstrap_tools.py).                                            *)

StrVal(v) == [t |-> "str", v |-> v]
IntVal(v) == [t |-> "int", v |-> v]

\* isinstance(v, str) and v
IsNonEmptyStr(x) == x.t = "str" /\ x.v # <<>>

\* the empty JSON object {}
EmptyObj == [k \in {} |-> StrVal(<<>>)]

\* an args_schema {"type": "object", "additionalProperties": False,
\* "properties": props, "required": required}; AnySchema is the schema {}
ObjSchema(props, required) == [any |-> FALSE, props |-> props, required |-> required]
AnySchema == [any |-> TRUE, props |-> EmptyObj, required |-> {}]

\* reg_tool(...) of build_tool_registry: every built-in is registered non-destructive
RegTool(side_effects, supports_dry_run, args_schema) ==
    [side_effects |-> side_effects, destructive |-> FALSE,
     supports_dry_run |-> supports_dry_run, args_schema |-> args_schema]

\* a ToolDef as ToolRegistry.register accepts it
ToolDef(side_effects, destructive, supports_dry_run, args_schema) ==
    [side_effects |-> side_effects, destructive |-> destructive,
     supports_dry_run |-> supports_dry_run, args_schema |-> args_schema]

\* the tools build_tool_registry registers
BuiltinTools ==
    ("fs.list" :> RegTool("filesystem", TRUE, ObjSchema([path |-> "str"], {"path"})))
    @@ ("fs.stat" :> RegTool("filesystem", TRUE, ObjSchema([path |-> "str"], {"path"})))
    @@ ("fs.mkdir" :> RegTool("filesystem", TRUE,
            ObjSchema([path |-> "str", parents |-> "bool", exist_ok |-> "bool"], {"path"})))
    @@ ("fs.move" :> RegTool("filesystem", TRUE,
            ObjSchema([from |-> "str", to |-> "str", overwrite |-> "bool"], {"from", "to"})))
    @@ ("notify.send" :> RegTool("notification", TRUE, ObjSchema([message |-> "str"], {"message"})))
    @@ ("app.open" :> RegTool("app", TRUE, ObjSchema([target |-> "str"], {"target"})))
    @@ ("app.quit" :> RegTool("app", TRUE, ObjSchema([app_id |-> "str"], {"app_id"})))

\* a registry a host extends through ToolRegistry.register with tools that exercise
\* the gates no built-in reaches (a network tool, a destructive tool, a tool
\* without dry-run support, a network tool under the fs. prefix)
HostTools ==
    BuiltinTools
    @@ ("net.http" :> ToolDef("network", FALSE, TRUE, AnySchema))
    @@ ("x.wipe" :> ToolDef("filesystem", TRUE, TRUE, AnySchema))
    @@ ("x.raw" :> ToolDef("app", FALSE, FALSE, AnySchema))
    @@ ("fs.fetch" :> ToolDef("network", FALSE, TRUE, AnySchema))

\* ToolRegistry._defs of the kernel under study: what build_tool_registry()
\* returns, or that registry extended by the host
Registry == IF tools = "builtin" THEN BuiltinTools ELSE HostTools

\* ToolRegistry.get(tool_id) is not None
ToolKnown(tool_id) == tool_id \in DOMAIN Registry

\* tool_id.startswith("fs."), over the tool ids of the model
StartsWithFs(tool_id) == tool_id \in {"fs.list", "fs.stat", "fs.mkdir", "fs.move", "fs.walk", "fs.fetch"}

\* jsonschema.Draft202012Validator(args_schema).validate(args) raises nothing
ArgsValid(schema, args) ==
    \/ schema.any
    \/ /\ schema.required \subseteq DOMAIN args
       /\ DOMAIN args \subseteq DOMAIN schema.props
       /\ \A k \in DOMAIN args : args[k].t = schema.props[k]

\* a required string argument the tool itself rejects:
\* `if not isinstance(x, str) or not x: raise ValueError`
BadArg(args, k) == k \notin DOMAIN args \/ ~IsNonEmptyStr(args[k])

\* the outcomes of impl(args, dry_run) over the host states (which paths exist,
\* what they are): TRUE when some host state makes the tool raise
ToolCanRaise(tool_id, args, dry_run) ==
    CASE tool_id = "fs.list" -> TRUE
      [] tool_id = "fs.stat" -> TRUE
      [] tool_id = "fs.mkdir" -> BadArg(args, "path") \/ ~dry_run
      [] tool_id = "fs.move" -> BadArg(args, "from") \/ BadArg(args, "to") \/ ~dry_run
      [] tool_id = "notify.send" -> BadArg(args, "message")
      [] tool_id = "app.open" -> BadArg(args, "target") \/ ~dry_run
      [] tool_id = "app.quit" -> BadArg(args, "app_id") \/ ~dry_run
      [] tool_id = "net.http" -> BadArg(args, "url") \/ ~dry_run
      [] OTHER -> TRUE

\* TRUE when some host state makes the tool return an output
ToolCanReturn(tool_id, args, dry_run) ==
    CASE tool_id = "fs.list" -> ~BadArg(args, "path")
      [] tool_id = "fs.stat" -> ~BadArg(args, "path")
      [] tool_id = "fs.mkdir" -> ~BadArg(args, "path")
      [] tool_id = "fs.move" -> ~BadArg(args, "from") /\ ~BadArg(args, "to")
      [] tool_id = "notify.send" -> ~BadArg(args, "message")
      [] tool_id = "app.open" -> ~BadArg(args, "target") /\ dry_run
      [] tool_id = "app.quit" -> ~BadArg(args, "app_id") /\ dry_run
      [] tool_id = "net.http" -> ~BadArg(args, "url")
      [] OTHER -> TRUE

----------------------------------------------------------------------------
(* PolicyEngine.evaluate (nucleus/core/policy_engine.py).                  *)

\* PolicyResult(decision="deny", reason_codes=[code], summary=...)
Deny(code, summary) == [decision |-> "deny", reason_codes |-> <<code>>, summary |-> summary]

\* PolicyResult(decision="allow", reason_codes=["scope.ok", "tools.ok"], ...)
Allow == [decision |-> "allow", reason_codes |-> <<"scope.ok", "tools.ok">>,
          summary |-> "Allowed by default policy"]

\* a step that passed every rule: the loop goes on (reasons.append("tool.ok"))
StepOk == [decision |-> "ok", reason_codes |-> <<"tool.ok">>, summary |-> ""]

\* the value before evaluate has run
NoResult == [decision |-> "none", reason_codes |-> <<>>, summary |-> ""]

\* Python truthiness of a JSON value
Truthy(x) ==
    CASE x.t = "str" -> x.v # <<>>
      [] x.t = "int" -> x.v # 0
      [] x.t = "bool" -> x.v = <<"1">>
      [] OTHER -> FALSE

\* args_obj.get("url") or args_obj.get("endpoint"); NoUrl stands for None
NoUrl == IntVal(0)
UrlArg(args) ==
    IF "url" \in DOMAIN args /\ Truthy(args["url"]) THEN args["url"]
    ELSE IF "endpoint" \in DOMAIN args THEN args["endpoint"]
    ELSE NoUrl

\* index of the first character c of s at or after k (Len(s) + 1 when there is none)
RECURSIVE IndexFrom(_, _, _)
IndexFrom(s, c, k) ==
    IF k > Len(s) THEN Len(s) + 1
    ELSE IF s[k] = c THEN k
    ELSE IndexFrom(s, c, k + 1)

\* urlparse(url).hostname for URLs without userinfo and upper case: the netloc
\* follows "scheme://" (or a leading "//") up to the next "/", less its ":port";
\* <<>> stands for None
UrlHostname(url) ==
    LET colon == IndexFrom(url, ":", 1)
        start == IF StartsWith(url, <<"/", "/">>) THEN 3
                 ELSE IF colon <= Len(url) /\ StartsWith(SubSeq(url, colon + 1, Len(url)), <<"/", "/">>)
                      THEN colon + 3
                 ELSE 0
        rest == SubSeq(url, start, Len(url))
        netloc == SubSeq(rest, 1, IndexFrom(rest, "/", 1) - 1)
    IN IF start = 0 THEN <<>> ELSE SubSeq(netloc, 1, IndexFrom(netloc, ":", 1) - 1)

\* str.endswith
EndsWith(s, x) == Len(s) >= Len(x) /\ SubSeq(s, Len(s) - Len(x) + 1, Len(s)) = x

\* HostMatches with the suffix compared without its leading dot: "*.d" matches "d"
HostMatchesNoDot(host, pat) ==
    \/ pat = <<"*">>
    \/ StartsWith(pat, <<"*", ".">>) /\ EndsWith(host, SubSeq(pat, 3, Len(pat)))
    \/ host = pat

\* one allowlist pattern against the host (policy_engine.py lines 113-122)
HostMatches(host, pat) ==
    \/ pat = <<"*">>
    \/ StartsWith(pat, <<"*", ".">>) /\ EndsWith(host, SubSeq(pat, 2, Len(pat)))
    \/ host = pat

\* the network gate of one step (lines 79-128)
NetworkRule(tool_call, allow_network, allowlist) ==
    IF ~allow_network
    THEN Deny("scope.network_denied", "Network tool is denied by scope.allow_network=false")
    ELSE IF allowlist = <<>>
    THEN Deny("scope.network_allowlist_missing", "Network is enabled but scope.network_hosts_allowlist is empty")
    ELSE LET url == UrlArg(tool_call.args)
         IN IF ~IsNonEmptyStr(url)
            THEN Deny("scope.network_missing_url", "Network tool requires args.url or args.endpoint")
            ELSE IF UrlHostname(url.v) = <<>>
            THEN Deny("scope.network_invalid_url", "Invalid URL for network tool allowlist enforcement")
            ELSE IF ~\E k \in 1..Len(allowlist) : HostMatches(UrlHostname(url.v), allowlist[k])
            THEN Deny("scope.network_host_denied", "Network host is not in allowlist")
            ELSE StepOk

\* paths_to_check: the non-empty string values of the keys path, from, to
PathsToCheck(args) ==
    {args[k].v : k \in {k \in {"path", "from", "to"} \cap DOMAIN args : IsNonEmptyStr(args[k])}}

\* the filesystem scope gate of one step (lines 131-149)
FsScopeRule(tool_call, roots) ==
    IF \E p \in PathsToCheck(tool_call.args) : ~IsWithinAnyRoot(p, roots)
    THEN Deny("scope.out_of_bounds", "Tool path outside declared scope")
    ELSE StepOk

\* ModeRule without the destructive gate
ModeRuleNoDestructiveGate(c, tool_call, tool_def) ==
    IF c.dry_run /\ c.strict_dry_run /\ ~tool_def.supports_dry_run
    THEN Deny("dry_run.not_supported", "Tool does not support dry-run")
    ELSE IF c.dry_run /\ "dry_run_ok" \in DOMAIN tool_call /\ tool_call.dry_run_ok = FALSE
    THEN Deny("dry_run.step_not_marked_ok", "Step not marked dry-run compatible")
    ELSE StepOk

\* ModeRule with both dry-run gates under strict_dry_run
ModeRuleStrictOnly(c, tool_call, tool_def) ==
    IF tool_def.destructive /\ ~c.allow_destructive
    THEN Deny("tool.destructive_denied", "Destructive tool is denied by default")
    ELSE IF c.dry_run /\ c.strict_dry_run /\ ~tool_def.supports_dry_run
    THEN Deny("dry_run.not_supported", "Tool does not support dry-run")
    ELSE IF c.dry_run /\ c.strict_dry_run /\ "dry_run_ok" \in DOMAIN tool_call /\ tool_call.dry_run_ok = FALSE
    THEN Deny("dry_run.step_not_marked_ok", "Step not marked dry-run compatible")
    ELSE StepOk

\* the destructive gate and the two dry-run gates of one step (lines 151-170)
ModeRule(c, tool_call, tool_def) ==
    IF tool_def.destructive /\ ~c.allow_destructive
    THEN Deny("tool.destructive_denied", "Destructive tool is denied by default")
    ELSE IF c.dry_run /\ c.strict_dry_run /\ ~tool_def.supports_dry_run
    THEN Deny("dry_run.not_supported", "Tool does not support dry-run")
    ELSE IF c.dry_run /\ "dry_run_ok" \in DOMAIN tool_call /\ tool_call.dry_run_ok = FALSE
    THEN Deny("dry_run.step_not_marked_ok", "Step not marked dry-run compatible")
    ELSE StepOk

\* StepRule with the filesystem scope gate ahead of the network gate
StepRuleFsFirst(c, step, roots, allow_network, allowlist) ==
    IF "tool" \notin DOMAIN step
    THEN Deny("plan.tool_missing", "Step.tool is required")
    ELSE IF step.tool.tool_id = ""
    THEN Deny("plan.tool_id_invalid", "tool_id is required")
    ELSE IF ~ToolKnown(step.tool.tool_id)
    THEN Deny("tool.unknown", "Unknown tool")
    ELSE LET tool_def == Registry[step.tool.tool_id]
             net == IF tool_def.side_effects = "network"
                    THEN NetworkRule(step.tool, allow_network, allowlist) ELSE StepOk
             fs == IF StartsWithFs(step.tool.tool_id)
                   THEN FsScopeRule(step.tool, roots) ELSE StepOk
         IN IF fs.decision = "deny" THEN fs
            ELSE IF net.decision = "deny" THEN net
            ELSE ModeRule(c, step.tool, tool_def)

\* the body of `for step in steps` (lines 64-172) for one step
StepRule(c, step, roots, allow_network, allowlist) ==
    IF "tool" \notin DOMAIN step
    THEN Deny("plan.tool_missing", "Step.tool is required")
    ELSE IF step.tool.tool_id = ""
    THEN Deny("plan.tool_id_invalid", "tool_id is required")
    ELSE IF ~ToolKnown(step.tool.tool_id)
    THEN Deny("tool.unknown", "Unknown tool")
    ELSE LET tool_def == Registry[step.tool.tool_id]
             net == IF tool_def.side_effects = "network"
                    THEN NetworkRule(step.tool, allow_network, allowlist) ELSE StepOk
             fs == IF StartsWithFs(step.tool.tool_id)
                   THEN FsScopeRule(step.tool, roots) ELSE StepOk
         IN IF net.decision = "deny" THEN net
            ELSE IF fs.decision = "deny" THEN fs
            ELSE ModeRule(c, step.tool, tool_def)

\* the loop over the steps: the first step that is denied decides
RECURSIVE EvaluateSteps(_, _, _, _, _, _)
EvaluateSteps(c, steps, k, roots, allow_network, allowlist) ==
    IF k > Len(steps) THEN Allow
    ELSE LET r == StepRule(c, steps[k], roots, allow_network, allowlist)
         IN IF r.decision = "deny" THEN r
            ELSE EvaluateSteps(c, steps, k + 1, roots, allow_network, allowlist)

\* PolicyEngine.evaluate(ctx, plan)
Evaluate(c, pl) ==
    IF "intent" \notin DOMAIN pl
    THEN Deny("plan.intent_missing", "Plan is missing intent")
    ELSE IF Len(pl.intent.scope.fs_roots) < 1
    THEN Deny("scope.missing", "Explicit scope is required")
    ELSE IF Len(NormalizeRoots(pl.intent.scope.fs_roots)) < 1
    THEN Deny("scope.invalid", "Scope fs_roots must be valid paths")
    ELSE IF \E k \in 1..Len(pl.intent.scope.network_hosts_allowlist) :
                pl.intent.scope.network_hosts_allowlist[k] = <<>>
    THEN Deny("scope.invalid", "Scope network_hosts_allowlist must be an array of non-empty strings")
    ELSE IF Len(pl.steps) < 1
    THEN Deny("plan.steps_missing", "Plan must have steps")
    ELSE EvaluateSteps(c, pl.steps, 1, NormalizeRoots(pl.intent.scope.fs_roots),
                       pl.intent.scope.allow_network, pl.intent.scope.network_hosts_allowlist)

----------------------------------------------------------------------------
(* Trace events and errors (nucleus/trace/trace_emitter.py,                *)
(* nucleus/core/errors.py).                                                *)

\* the event TraceEmitter.emit builds; step_id 0 and policy NoResult stand for an
\* absent key, data is the set of the <<key, value>> pairs of the data object
Event(event_type, step_id, policy, message, data) ==
    [event_type |-> event_type, step_id |-> step_id, policy |-> policy,
     message |-> message, data |-> data]

\* a NucleusError subclass instance: kind is the class, code its code, reasons and
\* tool_id the entries of its data (<<>> and "" when data has no such key)
Err(kind, code, reasons, tool_id) ==
    [kind |-> kind, code |-> code, reasons |-> reasons, tool_id |-> tool_id]

NoError == Err("none", "", <<>>, "")

\* "true" / "false" as json.dumps writes a bool
BoolStr(b) == IF b THEN "true" ELSE "false"

----------------------------------------------------------------------------
(* The plan schema gate.  plan.schema.json is a data file of the repository *)
(* that is not among the sources; it is modelled from the data model of the *)
(* specification (plan_id non-empty, steps[>=1], scope.fs_roots[>=1], each  *)
(* step with a step_id and a tool object naming a tool_id).                 *)

\* ContractStore.validate("plan.schema.json", plan): the list of error messages
PlanErrors(pl) ==
    (IF pl.plan_id = "" THEN {"plan_id: too short"} ELSE {})
    \cup (IF "intent" \notin DOMAIN pl THEN {"intent: required"}
          ELSE IF Len(pl.intent.scope.fs_roots) < 1 THEN {"fs_roots: too short"} ELSE {})
    \cup (IF Len(pl.steps) < 1 THEN {"steps: too short"} ELSE {})
    \cup UNION {IF "tool" \notin DOMAIN pl.steps[k] THEN {"tool: required"}
                ELSE IF pl.steps[k].tool.tool_id = "" THEN {"tool_id: too short"} ELSE {}
                : k \in 1..Len(pl.steps)}

----------------------------------------------------------------------------
(* The inputs of a run: the plans and contexts the model explores.         *)

P_root == <<"/">>
P_t == <<"/", "t">>
P_t2 == <<"/", "t", "2">>
P_t_a == <<"/", "t", "/", "a">>
P_t_b == <<"/", "t", "/", "b">>
P_t2_a == <<"/", "t", "2", "/", "a">>
U_a == <<"s", ":", "/", "/", "a", "/", "p">>

\* step.tool objects: built-ins with paths inside and outside a root /t, args the
\* args_schema rejects, an unregistered tool and the three host-registered tools
ToolCallInputs ==
    { [tool_id |-> "fs.list", args |-> [path |-> StrVal(P_t)], dry_run_ok |-> TRUE],
      [tool_id |-> "fs.stat", args |-> [path |-> StrVal(P_t2)]],
      [tool_id |-> "fs.stat", args |-> [path |-> StrVal(P_root)], dry_run_ok |-> TRUE],
      [tool_id |-> "fs.stat", args |-> [path |-> StrVal(<<>>)]],
      [tool_id |-> "fs.move", args |-> [from |-> StrVal(P_t_a), to |-> StrVal(P_t2_a)]],
      [tool_id |-> "fs.move", args |-> [from |-> StrVal(P_t_a), to |-> StrVal(P_t_b)], dry_run_ok |-> FALSE],
      [tool_id |-> "fs.list", args |-> EmptyObj],
      [tool_id |-> "fs.list", args |-> [path |-> IntVal(0)]],
      [tool_id |-> "notify.send", args |-> [message |-> StrVal(<<"m">>)]],
      [tool_id |-> "app.open", args |-> [target |-> StrVal(<<"a">>)], dry_run_ok |-> TRUE],
      [tool_id |-> "x.unknown", args |-> EmptyObj],
      [tool_id |-> "x.wipe", args |-> [path |-> StrVal(P_t_a)]],
      [tool_id |-> "x.raw", args |-> EmptyObj],
      [tool_id |-> "net.http", args |-> [url |-> StrVal(U_a)]] }

\* intent.scope objects: a root /t, the filesystem root, no root, and /t with the
\* network opened to any host
ScopeInputs ==
    { [fs_roots |-> <<P_t>>, allow_network |-> FALSE, network_hosts_allowlist |-> <<>>],
      [fs_roots |-> <<P_root>>, allow_network |-> FALSE, network_hosts_allowlist |-> <<>>],
      [fs_roots |-> <<>>, allow_network |-> FALSE, network_hosts_allowlist |-> <<>>],
      [fs_roots |-> <<P_t>>, allow_network |-> TRUE, network_hosts_allowlist |-> <<<<"*">>>>] }

\* the steps of a plan: step k carries step_id k and one of the tool calls
StepsInputs ==
    UNION {{[k \in 1..n |-> [step_id |-> k, phase |-> "commit", tool |-> f[k]]] :
            f \in [1..n -> ToolCallInputs]} : n \in 0..MaxSteps}

PlanInputs ==
    {[plan_id |-> "p1", intent |-> [intent_id |-> "i1", scope |-> sc], steps |-> st] :
        sc \in ScopeInputs, st \in StepsInputs}

\* RuntimeContext(dry_run, strict_dry_run, allow_destructive)
CtxInputs == [dry_run : BOOLEAN, strict_dry_run : BOOLEAN, allow_destructive : BOOLEAN]

----------------------------------------------------------------------------
(* Kernel.run_plan and Executor.execute (nucleus/core/kernel.py,           *)
(* nucleus/core/executor.py), one action per stretch of code between two    *)
(* trace writes or tool calls.                                             *)

ScopeIdle ==
    /\ scopePath = <<>>
    /\ scopeRoots = <<>>
    /\ scopeResult = "none"

\* no Planner.plan call is in progress
NoPlanOut == [status |-> "none", code |-> "", intent |-> EmptyObj]
PlannerIdle ==
    /\ planner = "none"
    /\ intent = EmptyObj
    /\ planOut = NoPlanOut

\* the trace file is looked at through the events of `trace` only
FileIdle ==
    /\ file = <<>>
    /\ readBack = <<>>

\* no tool has been run: nothing on the host is looked at
NoHost == [fs |-> <<>>, dirs |-> {}, sent |-> 0, conns |-> 0]

NoToolOut == [status |-> "none"]

\* the host and its clock are not looked at
HostIdle ==
    /\ clock = 0
    /\ stamps = <<>>
    /\ hostState = NoHost
    /\ toolOut = NoToolOut

NoTidy == [status |-> "none"]

\* the desktop-tidy planner has built no moves
TidyIdle == tidy = NoTidy

\* a PluginRegistry as __init__ leaves it, load_from_dir not called
NoPluginReg == [by_plugin_id |-> <<>>, by_intent_id |-> <<>>, dir |-> <<>>, last |-> "none", loads |-> 0, failed |-> FALSE]

\* request threads of the HTTP API
MaxThreads == 2

\* the module global _CORE_CONTRACTS is None (cache = 0) and no thread is in
\* run_plan; stores are numbered in the order they are constructed
NoContracts ==
    [cache |-> 0, built |-> 0,
     pc |-> [t \in 1..MaxThreads |-> "idle"],
     store |-> [t \in 1..MaxThreads |-> 0],
     calls |-> [t \in 1..MaxThreads |-> 0]]

\* no plan is run over a filesystem with links, no fs.move call is in flight
NoFsRun == [pc |-> "none"]
NoMovers == [pc |-> "none"]

\* nothing of the process outside the run is in use
EnvIdle == pluginReg = NoPluginReg /\ contracts = NoContracts /\ fsRun = NoFsRun /\ movers = NoMovers

Init ==
    /\ tools = "host"
    /\ plan \in PlanInputs
    /\ ctx \in CtxInputs
    /\ pc = "start"
    /\ trace = <<>>
    /\ policyResult = NoResult
    /\ stepIdx = 0
    /\ invoked = <<>>
    /\ effects = <<>>
    /\ results = <<>>
    /\ raised = NoError
    /\ returned = FALSE
    /\ ScopeIdle
    /\ PlannerIdle
    /\ FileIdle
    /\ HostIdle
    /\ TidyIdle
    /\ EnvIdle

\* kernel.py line 56: trace.emit("intent_received", ...)
IntentReceived ==
    /\ pc = "start"
    /\ trace' = Append(trace, Event("intent_received", 0, NoResult, "Intent received",
                                    {<<"intent", plan.intent.intent_id>>}))
    /\ pc' = "validate"
    /\ UNCHANGED <<tools, plan, ctx, policyResult, stepIdx, invoked, effects, results, raised, returned>>
    /\ UNCHANGED <<scopeVars, plannerVars, fileVars, hostVars, tidyVars, envVars>>

\* PlanSchemaInvalid with the schema gate left out: the plan goes to the policy
PlanSchemaInvalidSkipped ==
    /\ pc = "validate"
    /\ PlanErrors(plan) # {}
    /\ policyResult' = Evaluate(ctx, plan)
    /\ trace' = Append(trace, Event("policy_decision", 0, Evaluate(ctx, plan), "", {}))
    /\ pc' = "decided"
    /\ UNCHANGED <<tools, plan, ctx, stepIdx, invoked, effects, results, raised, returned>>
    /\ UNCHANGED <<scopeVars, plannerVars, fileVars, hostVars, tidyVars, envVars>>

\* PlanSchemaInvalid with the raise forgotten: the error is traced and the run
\* goes on to the policy
PlanSchemaInvalidProceeds ==
    /\ pc = "validate"
    /\ PlanErrors(plan) # {}
    /\ trace' = Append(trace, Event("error", 0, NoResult, "Plan schema validation failed",
                                    {<<"errors", e>> : e \in PlanErrors(plan)}))
    /\ policyResult' = Evaluate(ctx, plan)
    /\ pc' = "decided"
    /\ UNCHANGED <<tools, plan, ctx, stepIdx, invoked, effects, results, raised, returned>>
    /\ UNCHANGED <<scopeVars, plannerVars, fileVars, hostVars, tidyVars, envVars>>

\* kernel.py lines 59-74: the plan does not validate
PlanSchemaInvalid ==
    /\ pc = "validate"
    /\ PlanErrors(plan) # {}
    /\ trace' = Append(trace, Event("error", 0, NoResult, "Plan schema validation failed",
                                    {<<"errors", e>> : e \in PlanErrors(plan)}))
    /\ raised' = Err("ValidationError", "plan.schema_invalid", <<>>, "")
    /\ pc' = "raised"
    /\ UNCHANGED <<tools, plan, ctx, policyResult, stepIdx, invoked, effects, results, returned>>
    /\ UNCHANGED <<scopeVars, plannerVars, fileVars, hostVars, tidyVars, envVars>>

\* kernel.py lines 59-83: the plan validates, the policy is evaluated and its
\* decision traced
EvaluatePolicy ==
    /\ pc = "validate"
    /\ PlanErrors(plan) = {}
    /\ policyResult' = Evaluate(ctx, plan)
    /\ trace' = Append(trace, Event("policy_decision", 0, Evaluate(ctx, plan), "", {}))
    /\ pc' = "decided"
    /\ UNCHANGED <<tools, plan, ctx, stepIdx, invoked, effects, results, raised, returned>>
    /\ UNCHANGED <<scopeVars, plannerVars, fileVars, hostVars, tidyVars, envVars>>

\* PolicyDeny with the raise forgotten: the denial is traced and the run goes on
PolicyDenyProceeds ==
    /\ pc = "decided"
    /\ policyResult.decision # "allow"
    /\ trace' = Append(trace, Event("step_denied", 0, policyResult, policyResult.summary, {}))
    /\ stepIdx' = 1
    /\ pc' = "step"
    /\ UNCHANGED <<tools, plan, ctx, policyResult, invoked, effects, results, raised, returned>>
    /\ UNCHANGED <<scopeVars, plannerVars, fileVars, hostVars, tidyVars, envVars>>

\* PolicyDeny raising PolicyDenied without the decision's reason codes
PolicyDenyNoReasons ==
    /\ pc = "decided"
    /\ policyResult.decision # "allow"
    /\ trace' = Append(trace, Event("step_denied", 0, policyResult, policyResult.summary, {}))
    /\ raised' = Err("PolicyDenied", "policy.denied", <<>>, "")
    /\ pc' = "raised"
    /\ UNCHANGED <<tools, plan, ctx, policyResult, stepIdx, invoked, effects, results, returned>>
    /\ UNCHANGED <<scopeVars, plannerVars, fileVars, hostVars, tidyVars, envVars>>

\* kernel.py lines 84-96: the decision is not allow
PolicyDeny ==
    /\ pc = "decided"
    /\ policyResult.decision # "allow"
    /\ trace' = Append(trace, Event("step_denied", 0, policyResult, policyResult.summary, {}))
    /\ raised' = Err("PolicyDenied", "policy.denied", policyResult.reason_codes, "")
    /\ pc' = "raised"
    /\ UNCHANGED <<tools, plan, ctx, policyResult, stepIdx, invoked, effects, results, returned>>
    /\ UNCHANGED <<scopeVars, plannerVars, fileVars, hostVars, tidyVars, envVars>>

\* ExecutorBegin writing "plan_generated" twice
ExecutorBeginTwice ==
    /\ pc = "decided"
    /\ policyResult.decision = "allow"
    /\ trace' = trace \o << Event("plan_generated", 0, NoResult, "Plan ready for execution", {}),
                            Event("plan_generated", 0, NoResult, "Plan ready for execution", {}) >>
    /\ stepIdx' = 1
    /\ pc' = "step"
    /\ UNCHANGED <<tools, plan, ctx, policyResult, invoked, effects, results, raised, returned>>
    /\ UNCHANGED <<scopeVars, plannerVars, fileVars, hostVars, tidyVars, envVars>>

\* kernel.py lines 98-99 and executor.py lines 23-40: the executor's own checks
\* of the plan, then "plan_generated"
ExecutorBegin ==
    /\ pc = "decided"
    /\ policyResult.decision = "allow"
    /\ IF plan.plan_id = "" \/ Len(plan.steps) < 1
       THEN /\ raised' = Err("ValidationError", "plan.invalid", <<>>, "")
            /\ pc' = "raised"
            /\ UNCHANGED <<trace, stepIdx>>
       ELSE /\ trace' = Append(trace, Event("plan_generated", 0, NoResult,
                                            "Plan ready for execution", {}))
            /\ stepIdx' = 1
            /\ pc' = "step"
            /\ UNCHANGED raised
    /\ UNCHANGED <<tools, plan, ctx, policyResult, invoked, effects, results, returned>>
    /\ UNCHANGED <<scopeVars, plannerVars, fileVars, hostVars, tidyVars, envVars>>

\* StepCheck without the validation of the args against the args_schema
StepCheckNoArgsValidation ==
    /\ pc = "step"
    /\ stepIdx <= Len(plan.steps)
    /\ LET step == plan.steps[stepIdx]
       IN IF ~ToolKnown(step.tool.tool_id)
          THEN /\ trace' = Append(trace, Event("step_denied", step.step_id, NoResult, "Unknown tool",
                                               {<<"tool_id", step.tool.tool_id>>}))
               /\ raised' = Err("ToolNotFound", "tool.unknown", <<>>, step.tool.tool_id)
               /\ pc' = "raised"
          ELSE /\ trace' = Append(trace, Event("step_started", step.step_id, NoResult, "Step started",
                                               {<<"tool_id", step.tool.tool_id>>,
                                                <<"dry_run", BoolStr(ctx.dry_run)>>}))
               /\ pc' = "call"
               /\ UNCHANGED raised
    /\ UNCHANGED <<tools, plan, ctx, policyResult, stepIdx, invoked, effects, results, returned>>
    /\ UNCHANGED <<scopeVars, plannerVars, fileVars, hostVars, tidyVars, envVars>>

\* executor.py lines 41-96: the checks of one step up to "step_started"
StepCheck ==
    /\ pc = "step"
    /\ stepIdx <= Len(plan.steps)
    /\ LET step == plan.steps[stepIdx]
       IN IF "tool" \notin DOMAIN step \/ step.tool.tool_id = ""
          THEN /\ raised' = Err("ValidationError", "plan.step_invalid", <<>>, "")
               /\ pc' = "raised"
               /\ UNCHANGED trace
          ELSE IF ~ToolKnown(step.tool.tool_id)
          THEN /\ trace' = Append(trace, Event("step_denied", step.step_id, NoResult, "Unknown tool",
                                               {<<"tool_id", step.tool.tool_id>>}))
               /\ raised' = Err("ToolNotFound", "tool.unknown", <<>>, step.tool.tool_id)
               /\ pc' = "raised"
          ELSE IF ~ArgsValid(Registry[step.tool.tool_id].args_schema, step.tool.args)
          THEN /\ trace' = Append(trace, Event("step_denied", step.step_id, NoResult,
                                               "Tool args validation failed",
                                               {<<"tool_id", step.tool.tool_id>>, <<"error", "repr(e)">>}))
               /\ raised' = Err("ValidationError", "tool.args_invalid", <<>>, step.tool.tool_id)
               /\ pc' = "raised"
          ELSE /\ trace' = Append(trace, Event("step_started", step.step_id, NoResult, "Step started",
                                               {<<"tool_id", step.tool.tool_id>>,
                                                <<"dry_run", BoolStr(ctx.dry_run)>>}))
               /\ pc' = "call"
               /\ UNCHANGED raised
    /\ UNCHANGED <<tools, plan, ctx, policyResult, stepIdx, invoked, effects, results, returned>>
    /\ UNCHANGED <<scopeVars, plannerVars, fileVars, hostVars, tidyVars, envVars>>

\* executor.py lines 97-107: the tool is called and returns an output
ToolReturns ==
    /\ pc = "call"
    /\ LET step == plan.steps[stepIdx]
       IN /\ ToolCanReturn(step.tool.tool_id, step.tool.args, ctx.dry_run)
          /\ invoked' = Append(invoked, stepIdx)
          /\ effects' = Append(effects, stepIdx)
          /\ results' = Append(results, [step_id |-> step.step_id, tool_id |-> step.tool.tool_id])
          /\ trace' = Append(trace, Event("step_finished", step.step_id, NoResult, "Step finished",
                                          {<<"tool_id", step.tool.tool_id>>, <<"ok", "true">>,
                                           <<"output", "out">>}))
    /\ stepIdx' = stepIdx + 1
    /\ pc' = "step"
    /\ UNCHANGED <<tools, plan, ctx, policyResult, raised, returned>>
    /\ UNCHANGED <<scopeVars, plannerVars, fileVars, hostVars, tidyVars, envVars>>

\* ToolRaises retrying the step: the error is traced and the tool is called again
ToolRaisesRetry ==
    /\ pc = "call"
    /\ LET step == plan.steps[stepIdx]
       IN /\ ToolCanRaise(step.tool.tool_id, step.tool.args, ctx.dry_run)
          /\ invoked' = Append(invoked, stepIdx)
          /\ trace' = Append(trace, Event("error", step.step_id, NoResult, "Tool execution error",
                                          {<<"tool_id", step.tool.tool_id>>, <<"error", "repr(e)">>}))
    /\ pc' = "call"
    /\ UNCHANGED <<tools, plan, ctx, policyResult, stepIdx, effects, results, raised, returned>>
    /\ UNCHANGED <<scopeVars, plannerVars, fileVars, hostVars, tidyVars, envVars>>

\* ToolRaises undoing the earlier steps before it raises
ToolRaisesRollback ==
    /\ pc = "call"
    /\ LET step == plan.steps[stepIdx]
       IN /\ ToolCanRaise(step.tool.tool_id, step.tool.args, ctx.dry_run)
          /\ invoked' = Append(invoked, stepIdx)
          /\ trace' = Append(trace, Event("error", step.step_id, NoResult, "Tool execution error",
                                          {<<"tool_id", step.tool.tool_id>>, <<"error", "repr(e)">>}))
          /\ raised' = Err("ToolExecutionError", "tool.error", <<>>, step.tool.tool_id)
    /\ effects' = <<>>
    /\ pc' = "raised"
    /\ UNCHANGED <<tools, plan, ctx, policyResult, stepIdx, results, returned>>
    /\ UNCHANGED <<scopeVars, plannerVars, fileVars, hostVars, tidyVars, envVars>>

\* executor.py lines 97-117: the tool is called and raises
ToolRaises ==
    /\ pc = "call"
    /\ LET step == plan.steps[stepIdx]
       IN /\ ToolCanRaise(step.tool.tool_id, step.tool.args, ctx.dry_run)
          /\ invoked' = Append(invoked, stepIdx)
          /\ trace' = Append(trace, Event("error", step.step_id, NoResult, "Tool execution error",
                                          {<<"tool_id", step.tool.tool_id>>, <<"error", "repr(e)">>}))
          /\ raised' = Err("ToolExecutionError", "tool.error", <<>>, step.tool.tool_id)
    /\ pc' = "raised"
    /\ UNCHANGED <<tools, plan, ctx, policyResult, stepIdx, effects, results, returned>>
    /\ UNCHANGED <<scopeVars, plannerVars, fileVars, hostVars, tidyVars, envVars>>

\* executor.py lines 119-120: the loop is over
RunFinished ==
    /\ pc = "step"
    /\ stepIdx > Len(plan.steps)
    /\ trace' = Append(trace, Event("run_finished", 0, NoResult, "Run finished", {<<"ok", "true">>}))
    /\ returned' = TRUE
    /\ pc' = "returned"
    /\ UNCHANGED <<tools, plan, ctx, policyResult, stepIdx, invoked, effects, results, raised>>
    /\ UNCHANGED <<scopeVars, plannerVars, fileVars, hostVars, tidyVars, envVars>>

Next ==
    \/ IntentReceived
    \/ PlanSchemaInvalid
    \/ EvaluatePolicy
    \/ PolicyDeny
    \/ ExecutorBegin
    \/ StepCheck
    \/ ToolReturns
    \/ ToolRaises
    \/ RunFinished

Spec == Init /\ [][Next]_vars

----------------------------------------------------------------------------
(* Helpers of the claims.                                                  *)

\* the run is over: run_plan raised or returned
RunEnded == pc \in {"raised", "returned"}

\* the event types of the trace, in write order
EventTypes == [i \in 1..Len(trace) |-> trace[i].event_type]

\* some event of the trace has this type
HasEvent(event_type) == \E i \in 1..Len(trace) : trace[i].event_type = event_type

\* <<1, 2, ..., n>>
UpTo(n) == [i \in 1..n |-> i]

----------------------------------------------------------------------------
(* C1: a tool is invoked only after, within the same run_plan call, the    *)
(* plan validated against plan.schema.json with no errors and the policy   *)
(* was evaluated to "allow" for that plan and context; if either gate      *)
(* fails, no tool is invoked.                                              *)
C1_ToolsOnlyAfterBothGates ==
    /\ (invoked # <<>> \/ pc = "call") =>
          /\ PlanErrors(plan) = {}
          /\ policyResult.decision = "allow"
          /\ \E i \in 1..Len(trace) :
                /\ trace[i].event_type = "policy_decision"
                /\ trace[i].policy.decision = "allow"
    /\ (PlanErrors(plan) # {} \/ policyResult.decision = "deny") => invoked = <<>> /\ pc # "call"

\* a tool has been invoked in a run whose plan passed both gates
C1_Witness == invoked # <<>> /\ policyResult.decision = "allow" /\ PlanErrors(plan) = {}

(* C2: whenever the policy denies, the trace ends with policy_decision     *)
(* (deny, with the reason codes) immediately followed by step_denied,      *)
(* run_plan raises PolicyDenied / policy.denied whose data.reasons are the *)
(* decision's reason codes, no step_started is written, no tool invoked.   *)
C2_DenyEndsRun ==
    policyResult.decision = "deny" =>
        /\ pc \in {"decided", "raised"}
        /\ invoked = <<>>
        /\ ~HasEvent("step_started")
        /\ pc = "raised" =>
              /\ Len(trace) >= 2
              /\ trace[Len(trace) - 1].event_type = "policy_decision"
              /\ trace[Len(trace) - 1].policy.decision = "deny"
              /\ trace[Len(trace) - 1].policy.reason_codes = policyResult.reason_codes
              /\ trace[Len(trace)].event_type = "step_denied"
              /\ raised = Err("PolicyDenied", "policy.denied", policyResult.reason_codes, "")
              /\ policyResult.reason_codes # <<>>

\* a run that ended on a policy denial
C2_Witness == pc = "raised" /\ policyResult.decision = "deny" /\ raised.kind = "PolicyDenied"

\* a is a prefix of b, element by element
IsPrefixSeq(a, b) == Len(a) <= Len(b) /\ SubSeq(b, 1, Len(a)) = a

\* the canonical path p is neither a declared root nor below one, compared
\* component by component
OutsideRoots(p, fs_roots) ==
    ~\E k \in 1..Len(fs_roots) : IsPrefixSeq(CanonComponents(fs_roots[k]), CanonComponents(p))

\* the string values of the path, from and to arguments of a step
FsPathArgs(step) ==
    {step.tool.args[a].v : a \in {a \in {"path", "from", "to"} \cap DOMAIN step.tool.args :
                                      step.tool.args[a].t = "str"}}

\* step k is a filesystem-tool step with a non-empty path, from or to argument
\* outside the declared roots (the policy does not check an empty string)
OutOfScopeStepNonEmpty(k) ==
    /\ StartsWithFs(plan.steps[k].tool.tool_id)
    /\ \E p \in FsPathArgs(plan.steps[k]) : p # <<>> /\ OutsideRoots(p, plan.intent.scope.fs_roots)

\* no rule denies before the scope gate of step k is reached: the policy allows
\* the steps before k, and step k names a registered tool that is not a network tool
ScopeGateReached(k) ==
    /\ k = 1 \/ Evaluate(ctx, [plan EXCEPT !.steps = SubSeq(plan.steps, 1, k - 1)]).decision = "allow"
    /\ ToolKnown(plan.steps[k].tool.tool_id)
    /\ Registry[plan.steps[k].tool.tool_id].side_effects # "network"

(* C3 as stated: for every path p outside the declared fs_roots, a plan    *)
(* with a filesystem-tool step whose path, from or to argument is p is     *)
(* denied with reason code scope.out_of_bounds before the tool is called.  *)
C3_Original ==
    policyResult # NoResult =>
        \A k \in 1..Len(plan.steps) :
            OutOfScopeStepNonEmpty(k) =>
                /\ policyResult.decision = "deny"
                /\ policyResult.reason_codes = <<"scope.out_of_bounds">>
                /\ invoked = <<>>

(* C3, amended: for every non-empty path p outside the declared fs_roots,  *)
(* a plan with a filesystem-tool step whose path, from or to argument is p *)
(* is never allowed by the policy and none of its tools is called; the     *)
(* reason code is scope.out_of_bounds when no earlier rule denies first    *)
(* (every earlier step passes the policy and the step's own tool is        *)
(* registered and passes the network gate), otherwise it is the code of    *)
(* that earlier denial.                                                    *)
C3_OutOfScopeDenied ==
    \A k \in 1..Len(plan.steps) :
        OutOfScopeStepNonEmpty(k) =>
            /\ invoked = <<>>
            /\ pc # "call"
            /\ policyResult # NoResult => policyResult.decision = "deny"
            /\ (policyResult # NoResult /\ ScopeGateReached(k)) =>
                   policyResult.reason_codes = <<"scope.out_of_bounds">>

\* a run denied with scope.out_of_bounds for a step with a path outside the roots
C3_Witness ==
    /\ pc = "raised"
    /\ policyResult.reason_codes = <<"scope.out_of_bounds">>
    /\ \E k \in 1..Len(plan.steps) : OutOfScopeStepNonEmpty(k) /\ ScopeGateReached(k)

\* the trace reduced to <<event_type, step_id>> pairs
TraceShape == [i \in 1..Len(trace) |-> <<trace[i].event_type, trace[i].step_id>>]

\* step_started then step_finished for each step from k on, in plan order
RECURSIVE StepPairsFrom(_, _)
StepPairsFrom(steps, k) ==
    IF k > Len(steps) THEN <<>>
    ELSE << <<"step_started", steps[k].step_id>>, <<"step_finished", steps[k].step_id>> >>
         \o StepPairsFrom(steps, k + 1)

C5_SchemaFailureEndsRun ==
    (PlanErrors(plan) # {} /\ pc \notin {"start", "validate"}) =>
        /\ pc = "raised"
        /\ raised = Err("ValidationError", "plan.schema_invalid", <<>>, "")
        /\ TraceShape = << <<"intent_received", 0>>, <<"error", 0>> >>
        /\ trace[2].data = {<<"errors", e>> : e \in PlanErrors(plan)}
        /\ policyResult = NoResult
        /\ invoked = <<>>
        /\ ~ENABLED Next

\* a run that ended on a schema failure
C5_Witness == pc = "raised" /\ PlanErrors(plan) # {} /\ raised.code = "plan.schema_invalid"

(* C6: tools are invoked strictly in plan order, one step at a time and    *)
(* each step at most once: at any moment the invocations so far are those  *)
(* of a prefix of plan.steps, none skipped, reordered, repeated or retried. *)
C6_InvokedIsPrefix ==
    /\ Len(invoked) <= Len(plan.steps)
    /\ invoked = UpTo(Len(invoked))
    /\ pc = "call" => stepIdx = Len(invoked) + 1
    /\ effects = UpTo(Len(effects))
    /\ Len(invoked) - Len(effects) \in {0, 1}

\* both tools of a two-step plan have been invoked
C6_Witness == invoked = <<1, 2>>

(* C7: when a tool raises during step k, the executor writes an error      *)
(* event for that step, raises ToolExecutionError with code tool.error     *)
(* whose data carries the step's tool_id, writes no step_finished for step *)
(* k and no run_finished, never starts steps k+1..n, and does not undo the *)
(* effects of steps 1..k-1.                                                *)
C7_ToolErrorEndsRun ==
    raised.kind = "ToolExecutionError" =>
        /\ pc = "raised"
        /\ raised = Err("ToolExecutionError", "tool.error", <<>>, plan.steps[stepIdx].tool.tool_id)
        /\ trace[Len(trace)].event_type = "error"
        /\ trace[Len(trace)].step_id = plan.steps[stepIdx].step_id
        /\ <<"tool_id", plan.steps[stepIdx].tool.tool_id>> \in trace[Len(trace)].data
        /\ ~\E i \in 1..Len(trace) :
              trace[i].event_type = "step_finished" /\ trace[i].step_id = plan.steps[stepIdx].step_id
        /\ ~HasEvent("run_finished")
        /\ ~\E i \in 1..Len(trace) : trace[i].step_id > plan.steps[stepIdx].step_id
        /\ invoked = UpTo(stepIdx)
        /\ effects = UpTo(stepIdx - 1)
        /\ Len(results) = stepIdx - 1
        /\ ~returned
        /\ ~ENABLED Next

\* the second step's tool raised after the first step's tool had run
C7_Witness == raised.kind = "ToolExecutionError" /\ stepIdx = 2 /\ effects = <<1>>

\* the args of step k fail the args_schema of its (registered) tool
ArgsFail(k) ==
    /\ ToolKnown(plan.steps[k].tool.tool_id)
    /\ ~ArgsValid(Registry[plan.steps[k].tool.tool_id].args_schema, plan.steps[k].tool.args)

\* the event carries the code: as its message, as a value of its data, or among
\* its policy reason codes
EventCarries(ev, code) ==
    \/ ev.message = code
    \/ \E kv \in ev.data : kv[2] = code
    \/ \E i \in 1..Len(ev.policy.reason_codes) : ev.policy.reason_codes[i] = code

\* what run_plan does at a step whose args fail validation, but for the content
\* of the step_denied event
ArgsFailureEndsRun(k) ==
    /\ pc = "raised"
    /\ raised = Err("ValidationError", "tool.args_invalid", <<>>, plan.steps[k].tool.tool_id)
    /\ trace[Len(trace)].event_type = "step_denied"
    /\ trace[Len(trace)].step_id = plan.steps[k].step_id
    /\ ~\E i \in 1..Len(trace) :
          trace[i].event_type = "step_started" /\ trace[i].step_id >= plan.steps[k].step_id
    /\ invoked = UpTo(k - 1)
    /\ ~ENABLED Next

(* C8 as stated: when a step's tool.args fail validation against the       *)
(* tool's args_schema, the executor writes a step_denied event for that    *)
(* step that carries the stable code tool.args_invalid (and no             *)
(* step_started for it), raises ValidationError with code                  *)
(* tool.args_invalid, and invokes neither that step's tool nor a later one. *)
C8_Original ==
    \A k \in 1..Len(plan.steps) :
        (stepIdx = k /\ pc \in {"call", "raised"} /\ ArgsFail(k)) =>
            /\ ArgsFailureEndsRun(k)
            /\ EventCarries(trace[Len(trace)], "tool.args_invalid")

(* C8, amended: when a step's tool.args fail validation against the tool's *)
(* args_schema, the executor writes a step_denied event for that step with *)
(* the message "Tool args validation failed" and data {tool_id, error}     *)
(* (and no step_started for it), raises ValidationError with the stable    *)
(* code tool.args_invalid, and invokes neither that step's tool nor a      *)
(* later one; the code is carried by the raised error, not by the event.   *)
C8_ArgsInvalidDenied ==
    \A k \in 1..Len(plan.steps) :
        (stepIdx = k /\ pc \in {"call", "raised"} /\ ArgsFail(k)) =>
            /\ ArgsFailureEndsRun(k)
            /\ trace[Len(trace)].message = "Tool args validation failed"
            /\ {kv[1] : kv \in trace[Len(trace)].data} = {"tool_id", "error"}
            /\ <<"tool_id", plan.steps[k].tool.tool_id>> \in trace[Len(trace)].data
            /\ ~EventCarries(trace[Len(trace)], "tool.args_invalid")

\* the second step's args failed validation after the first step's tool had run
C8_Witness ==
    /\ pc = "raised" /\ raised.code = "tool.args_invalid"
    /\ stepIdx = 2 /\ ArgsFail(2) /\ invoked = <<1>>

\* the premises of C9 as the claim words them (of a plan that passes schema
\* validation): registered tools, filesystem path arguments within the declared
\* roots component by component, strict dry-run, tools that support dry-run, no
\* step with dry_run_ok = false
C9_Premises ==
    /\ PlanErrors(plan) = {}
    /\ ctx.dry_run /\ ctx.strict_dry_run
    /\ \A k \in 1..Len(plan.steps) :
          /\ ToolKnown(plan.steps[k].tool.tool_id)
          /\ Registry[plan.steps[k].tool.tool_id].supports_dry_run
          /\ ~("dry_run_ok" \in DOMAIN plan.steps[k].tool /\ plan.steps[k].tool.dry_run_ok = FALSE)
          /\ StartsWithFs(plan.steps[k].tool.tool_id) =>
                \A q \in FsPathArgs(plan.steps[k]) : ~OutsideRoots(q, plan.intent.scope.fs_roots)

\* what the claim leaves unsaid and is granted here: the args of every step
\* satisfy the tool's args_schema, no step names a network or destructive tool,
\* and the host is in a state in which no tool raises
C9_Granted ==
    /\ \A k \in 1..Len(plan.steps) :
          /\ ~ArgsFail(k)
          /\ Registry[plan.steps[k].tool.tool_id].side_effects # "network"
          /\ ~Registry[plan.steps[k].tool.tool_id].destructive
    /\ raised.kind # "ToolExecutionError"

(* C9 as stated, read in its most favourable way: for every plan whose     *)
(* steps name registered tools, whose fs.* path arguments all lie within   *)
(* scope, run under dry_run and strict_dry_run with tools that support     *)
(* dry-run and no step setting dry_run_ok = false (and whose args are      *)
(* valid, whose tools are neither network nor destructive and do not       *)
(* raise), the policy allows and the executor writes exactly one           *)
(* step_started/step_finished pair per step in plan order and a final      *)
(* run_finished.                                                           *)
C9_Original ==
    (C9_Premises /\ C9_Granted) =>
        /\ pc \notin {"start", "validate"} => policyResult.decision = "allow"
        /\ RunEnded =>
              /\ returned
              /\ SubSeq(TraceShape, 4, Len(trace)) =
                    StepPairsFrom(plan.steps, 1) \o << <<"run_finished", 0>> >>

----------------------------------------------------------------------------
(* is_within_any_root on its own (nucleus/core/scope.py): a path and a     *)
(* roots list are drawn, the roots are normalized and the test is applied. *)

\* component names of the paths explored: /t2 has /t as a string prefix
ScopeNames == {<<"t">>, <<"t", "2">>, <<".", ".">>}

\* the sequences of at most n component names
NameSeqs(n) == UNION {[1..k -> ScopeNames] : k \in 0..n}

\* path strings given to is_within_any_root: absolute paths of up to MaxDepth
\* components, a relative path, the home directory, a trailing separator and
\* the empty string
ScopePathInputs ==
    {PathStr(ns) : ns \in NameSeqs(MaxDepth)}
        \cup {<<"t">>, <<"~">>, <<"/", "t", "/">>, <<>>}

\* root strings of a scope: absolute paths, the home directory, the empty string
ScopeRootInputs ==
    {PathStr(ns) : ns \in NameSeqs(MaxDepth - 1)} \cup {<<"~">>, <<>>}

\* fs_roots lists of at most MaxRoots entries
ScopeRootsInputs == UNION {[1..k -> ScopeRootInputs] : k \in 0..MaxRoots}

\* no run_plan is in progress
KernelIdle ==
    /\ tools = "host"
    /\ plan = [plan_id |-> "", intent |-> [intent_id |-> "",
                                          scope |-> [fs_roots |-> <<>>, allow_network |-> FALSE,
                                                     network_hosts_allowlist |-> <<>>]],
               steps |-> <<>>]
    /\ ctx = [dry_run |-> TRUE, strict_dry_run |-> TRUE, allow_destructive |-> FALSE]
    /\ pc = "idle"
    /\ trace = <<>>
    /\ policyResult = NoResult
    /\ stepIdx = 0
    /\ invoked = <<>>
    /\ effects = <<>>
    /\ results = <<>>
    /\ raised = NoError
    /\ returned = FALSE

InitScope ==
    /\ KernelIdle
    /\ scopePath \in ScopePathInputs
    /\ scopeRoots \in ScopeRootsInputs
    /\ scopeResult = "none"
    /\ PlannerIdle
    /\ FileIdle
    /\ HostIdle
    /\ TidyIdle
    /\ EnvIdle

\* is_within_any_root(scopePath, normalize_roots(scopeRoots))
IsWithinAnyRootCall ==
    /\ scopeResult = "none"
    /\ scopeResult' = IF IsWithinAnyRoot(scopePath, NormalizeRoots(scopeRoots))
                      THEN "true" ELSE "false"
    /\ UNCHANGED <<scopePath, scopeRoots>>
    /\ UNCHANGED <<kernelVars, plannerVars, fileVars, hostVars, tidyVars, envVars>>

NextScope == IsWithinAnyRootCall

SpecScope == InitScope /\ [][NextScope]_vars

\* the canonical path equals a canonical root or is a strict descendant of
\* one, component by component
WithinSomeRootByComponents(path_str, roots) ==
    \E k \in 1..Len(roots) : IsPrefixSeq(Components(roots[k]), CanonComponents(path_str))

(* C10 as stated: is_within_any_root(path, roots) returns true if and only *)
(* if the canonicalized path equals one of the canonicalized roots or is a *)
(* strict descendant of one, compared component by component and not by    *)
(* substring, for every root including the filesystem root "/".            *)
C10_Original ==
    scopeResult # "none" =>
        ((scopeResult = "true") <=>
            WithinSomeRootByComponents(scopePath, NormalizeRoots(scopeRoots)))

----------------------------------------------------------------------------
(* PolicyEngine.evaluate on its own (nucleus/core/policy_engine.py): a     *)
(* context and a plan are drawn and evaluate is applied; the plans include *)
(* those the plan schema would reject.                                     *)

\* longest plan given to evaluate on its own (number of steps)
MaxPolicySteps == 2

U_bd == <<"s", ":", "/", "/", "b", ".", "d", "/", "p">>
U_d == <<"s", ":", "/", "/", "d", "/", "p">>
U_nohost == <<"a", "/", "p">>

\* step.tool objects for evaluate: one or more per rule of the policy
PolicyToolCallInputs ==
    { [tool_id |-> "fs.list", args |-> [path |-> StrVal(P_t)], dry_run_ok |-> TRUE],
      [tool_id |-> "fs.stat", args |-> [path |-> StrVal(P_t2)]],
      [tool_id |-> "fs.move", args |-> [from |-> StrVal(P_t_a), to |-> StrVal(P_t_b)], dry_run_ok |-> FALSE],
      [tool_id |-> "x.unknown", args |-> EmptyObj],
      [tool_id |-> "x.wipe", args |-> [path |-> StrVal(P_t_a)]],
      [tool_id |-> "x.raw", args |-> EmptyObj],
      [tool_id |-> "net.http", args |-> [url |-> StrVal(U_a)]],
      [tool_id |-> "net.http", args |-> [url |-> StrVal(U_bd)]],
      [tool_id |-> "net.http", args |-> [url |-> StrVal(U_d)]],
      [tool_id |-> "net.http", args |-> [url |-> StrVal(U_nohost)]],
      [tool_id |-> "net.http", args |-> EmptyObj],
      [tool_id |-> "fs.fetch", args |-> [url |-> StrVal(U_a), path |-> StrVal(P_t2)]] }

\* steps for evaluate: step k with one of the tool calls, or without a tool object
PolicyStepInputs(k) ==
    {[step_id |-> k, phase |-> "commit", tool |-> tc] : tc \in PolicyToolCallInputs}
        \cup {[step_id |-> k, phase |-> "commit"]}

PolicyStepsInputs ==
    UNION {{st \in [1..n -> UNION {PolicyStepInputs(k) : k \in 1..n}] :
                \A k \in 1..n : st[k].step_id = k} : n \in 0..MaxPolicySteps}

\* intent.scope objects for evaluate: no root, a root that normalizes away, the
\* network closed and opened with each kind of allowlist
PolicyScopeInputs ==
    { [fs_roots |-> <<P_t>>, allow_network |-> FALSE, network_hosts_allowlist |-> <<>>],
      [fs_roots |-> <<>>, allow_network |-> FALSE, network_hosts_allowlist |-> <<>>],
      [fs_roots |-> << <<>> >>, allow_network |-> FALSE, network_hosts_allowlist |-> <<>>],
      [fs_roots |-> <<P_t>>, allow_network |-> TRUE, network_hosts_allowlist |-> <<>>],
      [fs_roots |-> <<P_t>>, allow_network |-> TRUE, network_hosts_allowlist |-> << <<"*">> >>],
      [fs_roots |-> <<P_t>>, allow_network |-> TRUE, network_hosts_allowlist |-> << <<"*", ".", "d">> >>],
      [fs_roots |-> <<P_t>>, allow_network |-> TRUE, network_hosts_allowlist |-> << <<"a">> >>],
      [fs_roots |-> <<P_t>>, allow_network |-> TRUE, network_hosts_allowlist |-> << <<>> >>],
      [fs_roots |-> <<P_t>>, allow_network |-> FALSE, network_hosts_allowlist |-> << <<"a">> >>] }

\* plans for evaluate, with and without an intent
PolicyPlanInputs ==
    {[plan_id |-> "p1", intent |-> [intent_id |-> "i1", scope |-> sc], steps |-> st] :
        sc \in PolicyScopeInputs, st \in PolicyStepsInputs}
    \cup {[plan_id |-> "p1", steps |-> st] : st \in PolicyStepsInputs}

InitPolicy ==
    /\ tools = "host"
    /\ plan \in PolicyPlanInputs
    /\ ctx \in CtxInputs
    /\ pc = "policy"
    /\ trace = <<>>
    /\ policyResult = NoResult
    /\ stepIdx = 0
    /\ invoked = <<>>
    /\ effects = <<>>
    /\ results = <<>>
    /\ raised = NoError
    /\ returned = FALSE
    /\ ScopeIdle
    /\ PlannerIdle
    /\ FileIdle
    /\ HostIdle
    /\ TidyIdle
    /\ EnvIdle

\* PolicyEngine(tools).evaluate(ctx, plan)
PolicyEvaluateCall ==
    /\ pc = "policy"
    /\ policyResult' = Evaluate(ctx, plan)
    /\ pc' = "policy_done"
    /\ UNCHANGED <<tools, plan, ctx, trace, stepIdx, invoked, effects, results, raised, returned>>
    /\ UNCHANGED <<scopeVars, plannerVars, fileVars, hostVars, tidyVars, envVars>>

NextPolicy == PolicyEvaluateCall

SpecPolicy == InitPolicy /\ [][NextPolicy]_vars

\* evaluate has returned
PolicyDone == pc = "policy_done"

\* the violations of one step as <<rule, position, code>>: rule is the number of
\* the rule in the specification's list, position the place of the check in the
\* loop body of evaluate
StepViolations(c, step, sc) ==
    IF "tool" \notin DOMAIN step THEN {<<3, 1, "plan.tool_missing">>}
    ELSE IF step.tool.tool_id = "" THEN {<<3, 2, "plan.tool_id_invalid">>}
    ELSE IF ~ToolKnown(step.tool.tool_id) THEN {<<3, 3, "tool.unknown">>}
    ELSE LET tool_def == Registry[step.tool.tool_id]
             net == NetworkRule(step.tool, sc.allow_network, sc.network_hosts_allowlist)
             fs == FsScopeRule(step.tool, NormalizeRoots(sc.fs_roots))
         IN (IF tool_def.side_effects = "network" /\ net.decision = "deny"
             THEN {<<5, 4, net.reason_codes[1]>>} ELSE {})
            \cup (IF StartsWithFs(step.tool.tool_id) /\ fs.decision = "deny"
                  THEN {<<4, 5, "scope.out_of_bounds">>} ELSE {})
            \cup (IF tool_def.destructive /\ ~c.allow_destructive
                  THEN {<<6, 6, "tool.destructive_denied">>} ELSE {})
            \cup (IF c.dry_run /\ c.strict_dry_run /\ ~tool_def.supports_dry_run
                  THEN {<<7, 7, "dry_run.not_supported">>} ELSE {})
            \cup (IF c.dry_run /\ "dry_run_ok" \in DOMAIN step.tool /\ step.tool.dry_run_ok = FALSE
                  THEN {<<7, 8, "dry_run.step_not_marked_ok">>} ELSE {})

\* the violations of the plan-level rules as <<rule, position, code>>
PlanViolations(pl) ==
    IF "intent" \notin DOMAIN pl THEN {<<1, 1, "plan.intent_missing">>}
    ELSE (IF Len(pl.intent.scope.fs_roots) < 1 THEN {<<1, 2, "scope.missing">>}
          ELSE IF NormalizeRoots(pl.intent.scope.fs_roots) = <<>> THEN {<<1, 3, "scope.invalid">>}
          ELSE {})
         \cup (IF \E k \in 1..Len(pl.intent.scope.network_hosts_allowlist) :
                      pl.intent.scope.network_hosts_allowlist[k] = <<>>
               THEN {<<2, 4, "scope.invalid">>} ELSE {})
         \cup (IF Len(pl.steps) < 1 THEN {<<3, 5, "plan.steps_missing">>} ELSE {})

\* every violation of the plan as <<rule, code>>
RuleViolations(c, pl) ==
    {<<v[1], v[3]>> : v \in PlanViolations(pl)}
    \cup (IF "intent" \notin DOMAIN pl THEN {}
          ELSE UNION {{<<v[1], v[3]>> : v \in StepViolations(c, pl.steps[k], pl.intent.scope)} :
                      k \in 1..Len(pl.steps)})

(* C11 as stated: evaluate applies the rules in the listed order 1-7 and   *)
(* the first denial wins: the single reason code returned is that of the   *)
(* lowest-numbered rule the plan violates, whichever step violates it.     *)
C11_Original ==
    PolicyDone =>
        /\ (policyResult.decision = "allow") <=> (RuleViolations(ctx, plan) = {})
        /\ policyResult.decision = "deny" =>
              /\ Len(policyResult.reason_codes) = 1
              /\ \E v \in RuleViolations(ctx, plan) :
                    /\ v[2] = policyResult.reason_codes[1]
                    /\ \A w \in RuleViolations(ctx, plan) : v[1] <= w[1]

(* C11, amended: evaluate returns a single reason code and the first       *)
(* denial wins in the order of the code: the plan-level checks first       *)
(* (intent, fs_roots present, fs_roots normalize to a root, allowlist      *)
(* entries non-empty, steps present), then the steps in plan order, and    *)
(* within one step: tool object, tool_id, known tool, network rule,        *)
(* filesystem-scope rule, destructive rule, dry-run rules.  The code       *)
(* returned is that of the first check that fails in this order, so a      *)
(* violation in an earlier step is reported in preference to any violation *)
(* in a later step, and within a step a network violation in preference to *)
(* a filesystem-scope violation.  The plan is allowed exactly when no      *)
(* check fails.                                                            *)
C11_FirstDenialInCodeOrder ==
    PolicyDone =>
        /\ (policyResult.decision = "allow") <=> (RuleViolations(ctx, plan) = {})
        /\ policyResult.decision \in {"allow", "deny"}
        /\ policyResult.decision = "deny" =>
              /\ Len(policyResult.reason_codes) = 1
              /\ IF PlanViolations(plan) # {}
                 THEN \E v \in PlanViolations(plan) :
                         /\ v[3] = policyResult.reason_codes[1]
                         /\ \A w \in PlanViolations(plan) : v[2] <= w[2]
                 ELSE \E k \in 1..Len(plan.steps) :
                         /\ \A j \in 1..(k - 1) : StepViolations(ctx, plan.steps[j], plan.intent.scope) = {}
                         /\ \E v \in StepViolations(ctx, plan.steps[k], plan.intent.scope) :
                               /\ v[3] = policyResult.reason_codes[1]
                               /\ \A w \in StepViolations(ctx, plan.steps[k], plan.intent.scope) :
                                     v[2] <= w[2]

\* a step that breaks both the network rule and the filesystem-scope rule is
\* denied for the network
C11_Witness ==
    /\ PolicyDone
    /\ PlanViolations(plan) = {}
    /\ \E v \in StepViolations(ctx, plan.steps[1], plan.intent.scope) : v[1] = 4
    /\ \E v \in StepViolations(ctx, plan.steps[1], plan.intent.scope) : v[1] = 5
    /\ policyResult.reason_codes = <<"scope.network_denied">>

\* the plan passes rules 1-6: every violation it has is one of rule 7
PassesRules1to6(c, pl) == \A v \in RuleViolations(c, pl) : v[1] = 7

\* some step explicitly sets dry_run_ok = false
SomeStepNotDryRunOk(pl) ==
    \E k \in 1..Len(pl.steps) :
        /\ "tool" \in DOMAIN pl.steps[k]
        /\ "dry_run_ok" \in DOMAIN pl.steps[k].tool
        /\ pl.steps[k].tool.dry_run_ok = FALSE

\* evaluate denied with one of the two dry-run codes
DryRunDenied ==
    /\ policyResult.decision = "deny"
    /\ policyResult.reason_codes[1] \in {"dry_run.not_supported", "dry_run.step_not_marked_ok"}

(* C12 as stated: the dry-run gate denies (dry_run.not_supported or        *)
(* dry_run.step_not_marked_ok) only when ctx.dry_run and                   *)
(* ctx.strict_dry_run are both true; when either is false, a plan that     *)
(* passes rules 1-6 is allowed even if a tool lacks supports_dry_run or a  *)
(* step sets dry_run_ok = false.                                           *)
C12_Original ==
    PolicyDone =>
        /\ DryRunDenied => (ctx.dry_run /\ ctx.strict_dry_run)
        /\ (~(ctx.dry_run /\ ctx.strict_dry_run) /\ PassesRules1to6(ctx, plan)) =>
              policyResult.decision = "allow"

(* C12, amended: dry_run.not_supported is returned only when ctx.dry_run   *)
(* and ctx.strict_dry_run are both true; dry_run.step_not_marked_ok is     *)
(* returned whenever ctx.dry_run is true and a step explicitly sets        *)
(* dry_run_ok = false, whatever strict_dry_run is.  When ctx.dry_run is    *)
(* false a plan that passes rules 1-6 is allowed; when ctx.dry_run is true *)
(* and strict_dry_run is false a plan that passes rules 1-6 is allowed     *)
(* exactly when no step sets dry_run_ok = false (a tool lacking            *)
(* supports_dry_run does not deny it).                                     *)
C12_DryRunGate ==
    PolicyDone =>
        /\ (policyResult.decision = "deny" /\ policyResult.reason_codes[1] = "dry_run.not_supported")
              => (ctx.dry_run /\ ctx.strict_dry_run)
        /\ (policyResult.decision = "deny" /\ policyResult.reason_codes[1] = "dry_run.step_not_marked_ok")
              => (ctx.dry_run /\ SomeStepNotDryRunOk(plan))
        /\ (~ctx.dry_run /\ PassesRules1to6(ctx, plan)) => policyResult.decision = "allow"
        /\ (ctx.dry_run /\ ~ctx.strict_dry_run /\ PassesRules1to6(ctx, plan)) =>
              IF SomeStepNotDryRunOk(plan)
              THEN policyResult = Deny("dry_run.step_not_marked_ok", "Step not marked dry-run compatible")
              ELSE policyResult.decision = "allow"

\* a non-strict dry run denied for a step with dry_run_ok = false
C12_Witness ==
    /\ PolicyDone /\ ctx.dry_run /\ ~ctx.strict_dry_run
    /\ PassesRules1to6(ctx, plan)
    /\ policyResult.reason_codes = <<"dry_run.step_not_marked_ok">>

\* the steps of the plan whose tool has side_effects = network
NetworkSteps(pl) ==
    {k \in 1..Len(pl.steps) :
        /\ "tool" \in DOMAIN pl.steps[k]
        /\ ToolKnown(pl.steps[k].tool.tool_id)
        /\ Registry[pl.steps[k].tool.tool_id].side_effects = "network"}

\* the host h matches the allowlist as the claim words it: "*" is in the list, or
\* some entry "*.d" has h ending in ".d", or some entry equals h
HostAllowed(h, allowlist) ==
    \/ \E i \in 1..Len(allowlist) : allowlist[i] = <<"*">>
    \/ \E i \in 1..Len(allowlist) :
          /\ Len(allowlist[i]) >= 2 /\ allowlist[i][1] = "*" /\ allowlist[i][2] = "."
          /\ EndsWith(h, Tail(allowlist[i]))
    \/ \E i \in 1..Len(allowlist) : allowlist[i] = h

\* the network conditions of the claim for step k
NetworkStepAllowed(pl, k) ==
    LET sc == pl.intent.scope
        url == UrlArg(pl.steps[k].tool.args)
    IN /\ sc.allow_network
       /\ sc.network_hosts_allowlist # <<>>
       /\ IsNonEmptyStr(url)
       /\ UrlHostname(url.v) # <<>>
       /\ HostAllowed(UrlHostname(url.v), sc.network_hosts_allowlist)

DestructiveStep(k) ==
    /\ "tool" \in DOMAIN plan.steps[k]
    /\ ToolKnown(plan.steps[k].tool.tool_id)
    /\ Registry[plan.steps[k].tool.tool_id].destructive

\* no check denies before the destructive gate of step k is reached
DestructiveGateReached(k) ==
    /\ PlanViolations(plan) = {}
    /\ \A j \in 1..(k - 1) : StepViolations(ctx, plan.steps[j], plan.intent.scope) = {}
    /\ \A v \in StepViolations(ctx, plan.steps[k], plan.intent.scope) : v[2] >= 6

(* C14 as stated: a plan containing a step whose ToolDef has destructive = *)
(* true is never allowed while ctx.allow_destructive is false, the denial  *)
(* carrying tool.destructive_denied, so no destructive tool is invoked     *)
(* through run_plan without allow_destructive = true.                      *)
C14_Original ==
    \A k \in 1..Len(plan.steps) :
        (DestructiveStep(k) /\ ~ctx.allow_destructive) =>
            /\ invoked = <<>>
            /\ policyResult # NoResult =>
                  policyResult = Deny("tool.destructive_denied", "Destructive tool is denied by default")

(* C14, amended: a plan containing a step whose ToolDef has destructive =  *)
(* true is never allowed while ctx.allow_destructive is false, and none of *)
(* its tools is invoked; the reason code is tool.destructive_denied when   *)
(* no earlier check denies first (the earlier steps pass the policy and    *)
(* the step passes the network and filesystem-scope gates), otherwise it   *)
(* is the code of that earlier denial.  No destructive tool is invoked     *)
(* through run_plan unless ctx.allow_destructive is true.                  *)
C14_DestructiveDenied ==
    /\ \A k \in 1..Len(plan.steps) :
          (DestructiveStep(k) /\ ~ctx.allow_destructive) =>
              /\ invoked = <<>>
              /\ pc # "call"
              /\ policyResult # NoResult => policyResult.decision = "deny"
              /\ (policyResult # NoResult /\ DestructiveGateReached(k)) =>
                    policyResult = Deny("tool.destructive_denied", "Destructive tool is denied by default")
    /\ \A i \in 1..Len(invoked) : DestructiveStep(invoked[i]) => ctx.allow_destructive

\* a run denied with tool.destructive_denied
C14_Witness ==
    /\ pc = "raised"
    /\ ~ctx.allow_destructive
    /\ policyResult.reason_codes = <<"tool.destructive_denied">>
    /\ \E k \in 1..Len(plan.steps) : DestructiveStep(k) /\ DestructiveGateReached(k)

\* the plan's intent scope has fs_roots = []
NoFsRoots == plan.intent.scope.fs_roots = <<>>

\* the trace holds a policy_decision event followed by a step_denied event
PolicyDecisionThenStepDenied ==
    \E i \in 1..Len(trace) : \E j \in (i + 1)..Len(trace) :
        trace[i].event_type = "policy_decision" /\ trace[j].event_type = "step_denied"

(* C15 as stated: for every plan whose intent scope has fs_roots = [],     *)
(* running it results in a policy denial with reason code scope.missing,   *)
(* no tool invoked, and a trace that contains policy_decision followed by  *)
(* step_denied.                                                            *)
C15_Original ==
    (NoFsRoots /\ RunEnded) =>
        /\ raised = Err("PolicyDenied", "policy.denied", <<"scope.missing">>, "")
        /\ invoked = <<>>
        /\ PolicyDecisionThenStepDenied

(* C15, amended: for every plan whose intent scope has fs_roots = [],      *)
(* run_plan rejects the plan at schema validation, before the policy is    *)
(* evaluated: it raises ValidationError with code plan.schema_invalid, no  *)
(* tool is invoked, and the trace is intent_received followed by error,    *)
(* with no policy_decision and no step_denied.  PolicyEngine.evaluate      *)
(* called on such a plan returns deny with scope.missing.                  *)
C15_EmptyRootsRejectedBySchema ==
    NoFsRoots =>
        /\ Evaluate(ctx, plan) = Deny("scope.missing", "Explicit scope is required")
        /\ policyResult = NoResult
        /\ invoked = <<>>
        /\ ~HasEvent("policy_decision") /\ ~HasEvent("step_denied")
        /\ pc \in {"start", "validate", "raised"}
        /\ RunEnded =>
              /\ raised = Err("ValidationError", "plan.schema_invalid", <<>>, "")
              /\ TraceShape = << <<"intent_received", 0>>, <<"error", 0>> >>
              /\ <<"errors", "fs_roots: too short">> \in trace[2].data

\* a run of a plan with fs_roots = [] and a step has ended
C15_Witness == NoFsRoots /\ RunEnded /\ Len(plan.steps) >= 1

----------------------------------------------------------------------------
(* run_plan of a Kernel built with build_tool_registry() and nothing else  *)
(* (nucleus/bootstrap_tools.py), as the tests of the repository build it.  *)

InitBuiltin ==
    /\ tools = "builtin"
    /\ plan \in PlanInputs
    /\ ctx \in CtxInputs
    /\ pc = "start"
    /\ trace = <<>>
    /\ policyResult = NoResult
    /\ stepIdx = 0
    /\ invoked = <<>>
    /\ effects = <<>>
    /\ results = <<>>
    /\ raised = NoError
    /\ returned = FALSE
    /\ ScopeIdle
    /\ PlannerIdle
    /\ FileIdle
    /\ HostIdle
    /\ TidyIdle
    /\ EnvIdle

SpecBuiltin == InitBuiltin /\ [][Next]_vars

\* the first step of the plan is a net.http step and the scope closes the network
NetHttpFirstUnderClosedNetwork ==
    /\ PlanErrors(plan) = {}
    /\ plan.steps[1].tool.tool_id = "net.http"
    /\ ~plan.intent.scope.allow_network

(* C16 as stated: with the registry returned by build_tool_registry(), a   *)
(* plan containing a net.http step whose scope has allow_network = false   *)
(* is denied with reason code scope.network_denied (PolicyDenied raised;   *)
(* policy_decision and step_denied in the trace) and no network request is *)
(* made.  The net.http step is taken as the plan's first, so that no       *)
(* earlier step can be denied before it.                                   *)
C16_Original ==
    (NetHttpFirstUnderClosedNetwork /\ RunEnded) =>
        /\ raised = Err("PolicyDenied", "policy.denied", <<"scope.network_denied">>, "")
        /\ PolicyDecisionThenStepDenied
        /\ invoked = <<>>

----------------------------------------------------------------------------
(* The planners (nucleus/plugins/builtin_desktop/planner.py and            *)
(* plugins/builtin_desktop/planner.py): plan(intent) up to the intent      *)
(* object the plan carries.  Kernel.run_intent hands the caller's intent   *)
(* to plan() as it is.                                                     *)

\* a JSON boolean; v is <<"1">> for true and <<>> for false
BoolVal(b) == [t |-> "bool", v |-> IF b THEN <<"1">> ELSE <<>>]

\* "~/Desktop", the default target_dir, and the "/_Sorted" of the staging directory
D_Desktop == <<"~", "/", "D">>
D_Sorted == <<"/", "_", "S">>

\* root.path and root.staging_dir of the rules config the plugin planner loads
ConfigRoot == P_t
ConfigStaging == P_t \o D_Sorted

\* x in the list
InList(x, list) == \E i \in 1..Len(list) : list[i] = x

\* the plan() outcomes
PlanReturned(intent_obj) == [status |-> "returned", code |-> "", intent |-> intent_obj]
PlanRaised(code) == [status |-> "raised", code |-> code, intent |-> EmptyObj]

\* intent.get("scope") if it is a dict, else {}
ScopeOf(i) == IF "scope" \in DOMAIN i THEN i.scope ELSE EmptyObj

\* nucleus/plugins/builtin_desktop/planner.py: BuiltinDesktopPlanner.plan
NucleusPlan(i) ==
    LET scope == ScopeOf(i)
        target_dir == IF "target_dir" \in DOMAIN i.params THEN i.params.target_dir ELSE D_Desktop
        fs_roots == IF "fs_roots" \in DOMAIN scope THEN scope.fs_roots ELSE <<target_dir>>
        allow_network == IF "allow_network" \in DOMAIN scope /\ scope.allow_network.t = "bool"
                         THEN scope.allow_network.v = <<"1">> ELSE FALSE
        intent_obj == [intent_id |-> i.intent_id,
                       params |-> [target_dir |-> target_dir],
                       scope |-> [fs_roots |-> fs_roots, allow_network |-> BoolVal(allow_network)]]
    IN IF i.intent_id = "" THEN PlanRaised("intent.invalid")
       ELSE IF target_dir = <<>> THEN PlanRaised("intent.invalid")
       ELSE IF Len(fs_roots) < 1 THEN PlanRaised("scope.missing")
       ELSE IF ~InList(target_dir, fs_roots) THEN PlanRaised("scope.invalid")
       ELSE IF i.intent_id \in {"desktop.tidy", "desktop.restore"} THEN PlanReturned(intent_obj)
       ELSE PlanRaised("intent.unknown")

\* [self._expand_user(x) for x in fs_roots]
ExpandAll(fs_roots) == [k \in 1..Len(fs_roots) |-> ExpandUser(fs_roots[k])]

\* plugins/builtin_desktop/planner.py: BuiltinDesktopPlanner.plan with the
\* functions it dispatches to; later tells whether a check past the scope check
\* (the config file, the entries snapshot) raises
PluginPlan(i, later) ==
    LET scope == ScopeOf(i)
        fs_roots == IF "fs_roots" \in DOMAIN scope THEN scope.fs_roots ELSE <<>>
        allow_network == IF "allow_network" \in DOMAIN scope THEN Truthy(scope.allow_network) ELSE FALSE
        target_dir == IF "target_dir" \in DOMAIN i.params THEN i.params.target_dir ELSE D_Desktop
        intent_obj == [intent_id |-> i.intent_id,
                       params |-> i.params,
                       scope |-> [fs_roots |-> fs_roots, allow_network |-> BoolVal(allow_network)]]
        legacy_root == ExpandUser(target_dir)
        legacy_staging == legacy_root \o D_Sorted
    IN IF i.intent_id = "" THEN PlanRaised("intent.invalid")
       ELSE IF Len(fs_roots) < 1 THEN PlanRaised("scope.missing")
       ELSE IF i.intent_id \in {"desktop.tidy.preview", "desktop.tidy.run", "desktop.tidy.restore"}
               /\ "config_path" \notin DOMAIN i.params
       THEN PlanRaised("intent.invalid")
       ELSE IF i.intent_id = "desktop.tidy"
       THEN IF target_dir = <<>> THEN PlanRaised("intent.invalid")
            ELSE IF ~InList(legacy_root, ExpandAll(fs_roots)) \/ ~InList(legacy_staging, ExpandAll(fs_roots))
            THEN PlanRaised("scope.invalid")
            ELSE IF later THEN PlanRaised("intent.invalid")
            ELSE PlanReturned(intent_obj)
       ELSE IF i.intent_id = "desktop.tidy.configure" THEN PlanReturned(intent_obj)
       ELSE IF i.intent_id \in {"desktop.tidy.preview", "desktop.tidy.run", "desktop.tidy.restore"}
       THEN IF ~InList(ConfigRoot, ExpandAll(fs_roots)) \/ ~InList(ConfigStaging, ExpandAll(fs_roots))
            THEN PlanRaised("scope.invalid")
            ELSE IF later THEN PlanRaised("intent.invalid")
            ELSE PlanReturned(intent_obj)
       ELSE PlanRaised("intent.unknown")

\* the scope objects of the intents given to plan(): each key present or absent,
\* allow_network a bool or a value of another type
IntentScopeInputs ==
    LET roots == {<<>>, <<P_t>>, <<P_t, P_t \o D_Sorted>>, <<D_Desktop>>}
        nets == {BoolVal(TRUE), BoolVal(FALSE), StrVal(<<"n", "o">>), StrVal(<<>>)}
        lists == {<< <<"a">> >>}
    IN {EmptyObj}
       \cup {[fs_roots |-> r] : r \in roots}
       \cup {[allow_network |-> n] : n \in nets}
       \cup {[fs_roots |-> r, allow_network |-> n] : r \in roots, n \in nets}
       \cup {[fs_roots |-> r, network_hosts_allowlist |-> l] : r \in roots, l \in lists}
       \cup {[fs_roots |-> r, allow_network |-> n, network_hosts_allowlist |-> l] :
                r \in roots, n \in nets, l \in lists}

IntentParamsInputs ==
    {EmptyObj, [target_dir |-> P_t], [config_path |-> <<"c">>],
     [target_dir |-> P_t, config_path |-> <<"c">>]}

IntentIdInputs ==
    {"", "desktop.tidy", "desktop.restore", "desktop.tidy.configure", "desktop.tidy.preview",
     "desktop.tidy.run", "desktop.tidy.restore", "x.other"}

IntentInputs ==
    {[intent_id |-> id, params |-> pa, scope |-> sc] :
        id \in IntentIdInputs, pa \in IntentParamsInputs, sc \in IntentScopeInputs}
    \cup {[intent_id |-> id, params |-> pa] : id \in IntentIdInputs, pa \in IntentParamsInputs}

InitPlanner ==
    /\ KernelIdle
    /\ ScopeIdle
    /\ FileIdle
    /\ HostIdle
    /\ TidyIdle
    /\ EnvIdle
    /\ planner \in {"nucleus", "plugin"}
    /\ intent \in IntentInputs
    /\ planOut = NoPlanOut

\* nucleus planner: plan(intent)
NucleusPlannerPlan ==
    /\ planner = "nucleus"
    /\ planOut = NoPlanOut
    /\ planOut' = NucleusPlan(intent)
    /\ UNCHANGED <<planner, intent>>
    /\ UNCHANGED <<kernelVars, scopeVars, fileVars, hostVars, tidyVars, envVars>>

\* plugin planner: plan(intent)
PluginPlannerPlan ==
    /\ planner = "plugin"
    /\ planOut = NoPlanOut
    /\ \E later \in BOOLEAN : planOut' = PluginPlan(intent, later)
    /\ UNCHANGED <<planner, intent>>
    /\ UNCHANGED <<kernelVars, scopeVars, fileVars, hostVars, tidyVars, envVars>>

NextPlanner == NucleusPlannerPlan \/ PluginPlannerPlan

SpecPlanner == InitPlanner /\ [][NextPlanner]_vars

\* plan() returned a plan
PlanProduced == planOut.status = "returned"

(* C17 as stated: no planner widens the authorization scope: for every     *)
(* planner and every input intent, each fs_root of plan.intent.scope is an *)
(* fs_root of the input intent's scope, and allow_network is true in the   *)
(* plan only if it was true in the input.                                  *)
C17_Original ==
    PlanProduced =>
        /\ \A k \in 1..Len(planOut.intent.scope.fs_roots) :
              /\ "fs_roots" \in DOMAIN ScopeOf(intent)
              /\ InList(planOut.intent.scope.fs_roots[k], ScopeOf(intent).fs_roots)
        /\ planOut.intent.scope.allow_network = BoolVal(TRUE) =>
              /\ "allow_network" \in DOMAIN ScopeOf(intent)
              /\ ScopeOf(intent).allow_network = BoolVal(TRUE)

\* the input scope holds the three keys of the data model with values of their
\* types: fs_roots with a root, allow_network a bool, network_hosts_allowlist
DeclaresFullScope(i) ==
    /\ DOMAIN ScopeOf(i) = {"fs_roots", "allow_network", "network_hosts_allowlist"}
    /\ Len(ScopeOf(i).fs_roots) >= 1
    /\ ScopeOf(i).allow_network.t = "bool"

(* C18 as stated: the intent embedded in every plan produced by the        *)
(* desktop-tidy planner carries the caller's declared scope unchanged:     *)
(* plan.intent.scope equals the input intent's scope, including fs_roots,  *)
(* allow_network and network_hosts_allowlist.  The input is taken to       *)
(* declare all three keys with values of their types.                      *)
C18_Original ==
    (planner = "plugin" /\ PlanProduced /\ DeclaresFullScope(intent)) =>
        planOut.intent.scope = intent.scope

----------------------------------------------------------------------------
(* The trace file (nucleus/trace/trace_store_jsonl.py, trace_emitter.py,   *)
(* replay.py).  The file is a sequence of characters; "NL" is the newline, *)
(* "SP" the space, "QT" the double quote and "BS" the backslash.  An event *)
(* is the dict TraceEmitter.emit builds, kept as the sequence of its       *)
(* <<key, value>> items in insertion order; keys are one token each and    *)
(* values are strings.                                                     *)

\* most events the trace file holds in one exploration
MaxEmits == 2

\* an encoder that writes every character as it is
EscapeCharRaw(c) == <<c>>

\* json.dumps of one character of a string (ensure_ascii=False)
EscapeChar(c) ==
    CASE c = "QT" -> <<"BS", "QT">>
      [] c = "BS" -> <<"BS", "BS">>
      [] c = "NL" -> <<"BS", "n">>
      [] OTHER -> <<c>>

RECURSIVE EscapeFrom(_, _)
EscapeFrom(str, k) ==
    IF k > Len(str) THEN <<>> ELSE EscapeChar(str[k]) \o EscapeFrom(str, k + 1)

\* json.dumps of a string
JsonString(str) == <<"QT">> \o EscapeFrom(str, 1) \o <<"QT">>

\* json.dumps of the items of a dict from item k on, with the default separators
RECURSIVE JsonMembers(_, _)
JsonMembers(ev, k) ==
    IF k > Len(ev) THEN <<>>
    ELSE JsonString(<<ev[k][1]>>) \o <<":", "SP">> \o JsonString(ev[k][2])
         \o (IF k < Len(ev) THEN <<",", "SP">> ELSE <<>>)
         \o JsonMembers(ev, k + 1)

\* json.dumps(event, ensure_ascii=False)
JsonDumps(ev) == <<"{">> \o JsonMembers(ev, 1) \o <<"}">>

\* what json.loads yields for text that is no JSON object (it raises)
InvalidJson == << <<"invalid", <<>>>> >>

\* the character after a backslash in a JSON string
Unescape(c) ==
    CASE c = "n" -> "NL"
      [] c = "QT" -> "QT"
      [] c = "BS" -> "BS"
      [] OTHER -> "invalid"

\* json.loads: the body of a string from position k (after the opening quote)
\* up to its closing quote; a raw newline inside a string is an error
RECURSIVE StrBody(_, _, _)
StrBody(text, k, acc) ==
    IF k > Len(text) THEN [ok |-> FALSE, val |-> acc, next |-> k]
    ELSE IF text[k] = "QT" THEN [ok |-> TRUE, val |-> acc, next |-> k + 1]
    ELSE IF text[k] = "NL" THEN [ok |-> FALSE, val |-> acc, next |-> k]
    ELSE IF text[k] = "BS"
         THEN IF k + 1 > Len(text) \/ Unescape(text[k + 1]) = "invalid"
              THEN [ok |-> FALSE, val |-> acc, next |-> k]
              ELSE StrBody(text, k + 2, Append(acc, Unescape(text[k + 1])))
    ELSE StrBody(text, k + 1, Append(acc, text[k]))

\* json.loads: position of the first non-whitespace character at or after k
RECURSIVE SkipWs(_, _)
SkipWs(text, k) ==
    IF k <= Len(text) /\ text[k] \in {"SP", "NL"} THEN SkipWs(text, k + 1) ELSE k

\* json.loads: the items of an object from position k (at the quote of a key)
RECURSIVE ParseMembers(_, _, _)
ParseMembers(text, k, acc) ==
    IF k > Len(text) \/ text[k] # "QT" THEN InvalidJson
    ELSE LET key == StrBody(text, k + 1, <<>>)
             colon == SkipWs(text, key.next)
             vq == SkipWs(text, colon + 1)
             val == StrBody(text, vq + 1, <<>>)
             after == SkipWs(text, val.next)
         IN IF ~key.ok \/ Len(key.val) # 1 \/ colon > Len(text) \/ text[colon] # ":" THEN InvalidJson
            ELSE IF vq > Len(text) \/ text[vq] # "QT" \/ ~val.ok \/ after > Len(text) THEN InvalidJson
            ELSE IF text[after] = "}"
                 THEN (IF SkipWs(text, after + 1) > Len(text)
                       THEN Append(acc, <<key.val[1], val.val>>) ELSE InvalidJson)
            ELSE IF text[after] = ","
                 THEN ParseMembers(text, SkipWs(text, after + 1), Append(acc, <<key.val[1], val.val>>))
            ELSE InvalidJson

\* json.loads(line) for a line holding an object
JsonLoads(text) ==
    LET open == SkipWs(text, 1)
        first == SkipWs(text, open + 1)
    IN IF open > Len(text) \/ text[open] # "{" THEN InvalidJson
       ELSE IF first <= Len(text) /\ text[first] = "}" /\ SkipWs(text, first + 1) > Len(text) THEN <<>>
       ELSE ParseMembers(text, first, <<>>)

\* `for line in f`: the lines of the text from position k on, each up to and
\* with its newline, the last one up to the end of the text
RECURSIVE SplitLines(_, _)
SplitLines(text, k) ==
    IF k > Len(text) THEN <<>>
    ELSE LET nls == {j \in k..Len(text) : text[j] = "NL"}
         IN IF nls = {} THEN <<SubSeq(text, k, Len(text))>>
            ELSE LET end == CHOOSE j \in nls : \A i \in nls : j <= i
                 IN <<SubSeq(text, k, end)>> \o SplitLines(text, end + 1)

\* str.strip
RECURSIVE Strip(_)
Strip(line) ==
    IF line = <<>> THEN line
    ELSE IF line[1] \in {"SP", "NL"} THEN Strip(Tail(line))
    ELSE IF line[Len(line)] \in {"SP", "NL"} THEN Strip(SubSeq(line, 1, Len(line) - 1))
    ELSE line

\* Replay.iter_events over the lines from line k on
RECURSIVE IterEventsFrom(_, _)
IterEventsFrom(lines, k) ==
    IF k > Len(lines) THEN <<>>
    ELSE IF Strip(lines[k]) = <<>> THEN IterEventsFrom(lines, k + 1)
    ELSE <<JsonLoads(Strip(lines[k]))>> \o IterEventsFrom(lines, k + 1)

IterEvents(text) == IterEventsFrom(SplitLines(text, 1), 1)

\* message strings of the events: plain, empty, and with the characters that
\* json.dumps escapes or that end a line or that strip removes
MessageInputs ==
    { <<>>, <<"a">>, <<"NL">>, <<"QT">>, <<"BS">>, <<"SP">>, <<"BS", "n">>,
      <<"SP", "a", "SP">>, <<"a", "NL", "a">>, <<"BS", "QT">>, <<"}">>, <<"QT", ",", "SP", "QT">> }

\* events as emit builds them: ts, run_id, event_type, then the optional keys given
EventInputs ==
    {<< <<"ts", <<"0">>>>, <<"run_id", <<"r">>>>, <<"event_type", <<"e">>>>, <<"message", msg>> >> :
        msg \in MessageInputs}
    \cup {<< <<"ts", <<"0">>>>, <<"run_id", <<"r">>>>, <<"event_type", <<"e">>>>,
             <<"step_id", msg>>, <<"message", <<"a">>>> >> : msg \in {<<"a">>, <<"QT", "NL">>}}
    \cup {<< <<"ts", <<"0">>>>, <<"run_id", <<"r">>>>, <<"event_type", <<"e">>>> >>}

\* the trace path before the run: no file, or the file an earlier run left
InitTrace ==
    /\ tools = "host"
    /\ plan = [plan_id |-> "", intent |-> [intent_id |-> "",
                                          scope |-> [fs_roots |-> <<>>, allow_network |-> FALSE,
                                                     network_hosts_allowlist |-> <<>>]],
               steps |-> <<>>]
    /\ ctx = [dry_run |-> TRUE, strict_dry_run |-> TRUE, allow_destructive |-> FALSE]
    /\ pc = "trace"
    /\ policyResult = NoResult
    /\ stepIdx = 0
    /\ invoked = <<>>
    /\ effects = <<>>
    /\ results = <<>>
    /\ raised = NoError
    /\ returned = FALSE
    /\ ScopeIdle
    /\ PlannerIdle
    /\ \E earlier \in {<<>>} \cup {<<ev>> : ev \in EventInputs} :
          /\ trace = earlier
          /\ file = (IF earlier = <<>> THEN <<>> ELSE JsonDumps(earlier[1]) \o <<"NL">>)
    /\ readBack = <<>>
    /\ HostIdle
    /\ TidyIdle
    /\ EnvIdle

\* a store that opens the file in mode "w": the line replaces the content
TraceAppendTruncating ==
    /\ pc = "trace"
    /\ Len(trace) < MaxEmits
    /\ \E ev \in EventInputs :
          /\ file' = JsonDumps(ev) \o <<"NL">>
          /\ trace' = Append(trace, ev)
    /\ UNCHANGED readBack
    /\ UNCHANGED <<tools, plan, ctx, pc, policyResult, stepIdx, invoked, effects, results, raised, returned>>
    /\ UNCHANGED <<scopeVars, plannerVars, hostVars, tidyVars, envVars>>

\* TraceEmitter.emit(...) -> TraceStoreJSONL.append(event): the file is opened in
\* mode "a" and json.dumps(event) + "\n" is written
TraceAppend ==
    /\ pc = "trace"
    /\ Len(trace) < MaxEmits
    /\ \E ev \in EventInputs :
          /\ file' = file \o JsonDumps(ev) \o <<"NL">>
          /\ trace' = Append(trace, ev)
    /\ UNCHANGED readBack
    /\ UNCHANGED <<tools, plan, ctx, pc, policyResult, stepIdx, invoked, effects, results, raised, returned>>
    /\ UNCHANGED <<scopeVars, plannerVars, hostVars, tidyVars, envVars>>

\* list(Replay(path).iter_events())
ReplayIterEvents ==
    /\ pc = "trace"
    /\ readBack # IterEvents(file)
    /\ readBack' = IterEvents(file)
    /\ UNCHANGED file
    /\ UNCHANGED <<kernelVars, scopeVars, plannerVars, hostVars, tidyVars, envVars>>

NextTrace == TraceAppend \/ ReplayIterEvents

SpecTrace == InitTrace /\ [][NextTrace]_vars

\* the characters file' holds after the end of file
Added == SubSeq(file', Len(file) + 1, Len(file'))

\* the text is one complete line: it ends with the only newline it holds
OneLine(text) ==
    /\ text # <<>>
    /\ text[Len(text)] = "NL"
    /\ \A k \in 1..(Len(text) - 1) : text[k] # "NL"

\* the text of the lines json.dumps gives for the events, each ended by a newline
RECURSIVE LinesOf(_, _)
LinesOf(evs, k) ==
    IF k > Len(evs) THEN <<>> ELSE JsonDumps(evs[k]) \o <<"NL">> \o LinesOf(evs, k + 1)

\* some value of the event holds the character c
EventHolds(ev, c) == \E k \in 1..Len(ev) : \E j \in 1..Len(ev[k][2]) : ev[k][2][j] = c

\* C19: every step leaves the earlier content of the trace file in place at the
\* start of the file, and an emit adds exactly one complete line at the end, the
\* JSON text of the emitted event; a file that an earlier run left is appended
\* to, never truncated.
C19_AppendOnly ==
    [][/\ IsPrefixSeq(file, file')
       /\ trace' # trace =>
             /\ OneLine(Added)
             /\ Added = JsonDumps(trace'[Len(trace')]) \o <<"NL">>
             /\ JsonLoads(Strip(Added)) # InvalidJson
       /\ trace' = trace => file' = file]_vars

\* an emit of an event whose message holds a newline has been appended to the
\* file an earlier run left, and the file holds both lines
C19_Witness ==
    /\ pc = "trace"
    /\ Len(trace) = 2
    /\ EventHolds(trace[2], "NL")
    /\ file = JsonDumps(trace[1]) \o <<"NL">> \o JsonDumps(trace[2]) \o <<"NL">>

\* C20: Replay.iter_events yields exactly the events appended to the file, each
\* equal to the emitted event, in write order.
C20_RoundTrip ==
    [][readBack' # readBack => readBack' = trace /\ file = LinesOf(trace, 1)]_vars

\* two events, with a newline, a quote and a backslash among their values, have
\* been read back equal to the emitted ones
C20_Witness ==
    /\ pc = "trace"
    /\ Len(trace) = 2
    /\ readBack = trace
    /\ \E k \in 1..2 : EventHolds(trace[k], "NL")
    /\ \E k \in 1..2 : EventHolds(trace[k], "QT") \/ EventHolds(trace[k], "BS")

----------------------------------------------------------------------------
(* The ts of trace events (nucleus/trace/trace_emitter.py 25-29).  emit     *)
(* reads datetime.now(timezone.utc), the host's wall clock, for every      *)
(* event.  The clock is counted in ticks; time passing moves it forward,   *)
(* and the host (NTP step, administrator) may set it to an earlier value.  *)

\* largest value of the wall clock
MaxClock == 4

\* most events stamped in one run
MaxStamps == 3

InitClock ==
    /\ KernelIdle
    /\ ScopeIdle
    /\ PlannerIdle
    /\ FileIdle
    /\ TidyIdle
    /\ EnvIdle
    /\ clock \in 0..MaxClock
    /\ stamps = <<>>
    /\ hostState = NoHost
    /\ toolOut = NoToolOut

\* TraceEmitter.emit: event["ts"] = datetime.now(timezone.utc)
EmitStamp ==
    /\ Len(stamps) < MaxStamps
    /\ stamps' = Append(stamps, clock)
    /\ UNCHANGED <<clock, hostState, toolOut>>
    /\ UNCHANGED <<kernelVars, scopeVars, plannerVars, fileVars, tidyVars, envVars>>

\* time passes between two emits
ClockAdvance ==
    /\ \E later \in (clock + 1)..MaxClock : clock' = later
    /\ UNCHANGED <<stamps, hostState, toolOut>>
    /\ UNCHANGED <<kernelVars, scopeVars, plannerVars, fileVars, tidyVars, envVars>>

\* the host's wall clock is set back
ClockSetBack ==
    /\ \E earlier \in 0..(clock - 1) : clock' = earlier
    /\ UNCHANGED <<stamps, hostState, toolOut>>
    /\ UNCHANGED <<kernelVars, scopeVars, plannerVars, fileVars, tidyVars, envVars>>

NextClock == EmitStamp \/ ClockAdvance \/ ClockSetBack

SpecClock == InitClock /\ [][NextClock]_vars

\* C21: within one run the ts values of the events are non-decreasing along
\* the write order.
C21_Original ==
    \A i \in 1..Len(stamps) : \A j \in i..Len(stamps) : stamps[i] <= stamps[j]

----------------------------------------------------------------------------
(* The built-in tools (tools/fs, tools/notify, tools/app, tools/net), each *)
(* called as run(args, dry_run) on a host.  A path is [dir, name]: a       *)
(* directory below the filesystem root and a file name, the name a         *)
(* sequence of characters.  The paths given are absolute, free of "~",     *)
(* "$" and symlinks, so expand_user_path(...).resolve() returns them as    *)
(* they are.  hostState.fs maps every existing file to its contents.       *)

\* _with_suffix_increment: max_tries (10_000 in the source), scaled down
MaxTries == 2

FsPath(d, n) == [dir |-> d, name |-> n]

\* str.rfind("."), counted from 1 (0 when there is no dot)
LastDot(name) ==
    LET dots == {k \in 1..Len(name) : name[k] = "."}
    IN IF dots = {} THEN 0 ELSE CHOOSE k \in dots : \A j \in dots : j <= k

\* PurePath.suffix: from the last dot on, unless the dot starts or ends the name
PathSuffix(name) ==
    LET i == LastDot(name)
    IN IF 1 < i /\ i < Len(name) THEN SubSeq(name, i, Len(name)) ELSE <<>>

\* PurePath.stem
PathStem(name) ==
    LET i == LastDot(name)
    IN IF 1 < i /\ i < Len(name) THEN SubSeq(name, 1, i - 1) ELSE name

\* f"{stem}({i}){suffix}" in the directory of dst
Candidate(dst, i) ==
    FsPath(dst.dir, PathStem(dst.name) \o <<"(", ToString(i), ")">> \o PathSuffix(dst.name))

\* Path.exists
Exists(h, path) == path \in DOMAIN h.fs

\* a candidate search that starts at 0
WithSuffixIncrementFromZero(h, dst) ==
    LET free == {i \in 0..MaxTries : ~Exists(h, Candidate(dst, i))}
    IN IF free = {} THEN [found |-> FALSE, path |-> dst]
       ELSE [found |-> TRUE, path |-> Candidate(dst, CHOOSE i \in free : \A j \in free : i <= j)]

\* _with_suffix_increment: the first candidate of 1..max_tries that does not
\* exist, or FileExistsError (found = FALSE)
WithSuffixIncrement(h, dst) ==
    LET free == {i \in 1..MaxTries : ~Exists(h, Candidate(dst, i))}
    IN IF free = {} THEN [found |-> FALSE, path |-> dst]
       ELSE [found |-> TRUE, path |-> Candidate(dst, CHOOSE i \in free : \A j \in free : i <= j)]

\* the outcome of run(args, dry_run): the host afterwards and the call's result
ToolReturned(h, out) == [hostState |-> h, status |-> "returned", error |-> "", out |-> out]

ToolRaised(h, err) == [hostState |-> h, status |-> "raised", error |-> err, out |-> [dry_run |-> FALSE]]

\* Path.rename(dst) after dst.parent.mkdir(parents=True, exist_ok=True)
Rename(h, src, dst) ==
    [h EXCEPT !.dirs = @ \cup {dst.dir},
              !.fs = [q \in (DOMAIN h.fs \ {src}) \cup {dst} |-> IF q = dst THEN h.fs[src] ELSE h.fs[q]]]

\* fs.move, lines 45-47: the conflict policy in force
OnConflict(args) ==
    IF args.overwrite THEN "overwrite"
    ELSE IF args.on_conflict = "absent" THEN "error" ELSE args.on_conflict

\* a source check that comes before the dry-run branch
SourceMissingFailsAlways(h, src, dry_run) == ~Exists(h, src)

\* fs.move, lines 59 and 91-92: the source is looked for only after the
\* dry-run branch has returned
SourceMissingFails(h, src, dry_run) == ~dry_run /\ ~Exists(h, src)

\* a skip that moves the file all the same
SkipResultMoved(h, src, dst) ==
    ToolReturned(Rename(h, src, dst),
                 [from |-> src, to |-> dst, dry_run |-> FALSE, skipped |-> TRUE, reason |-> "dst_exists"])

\* fs.move, lines 99-101: the destination exists and on_conflict is skip
SkipResult(h, src, dst) ==
    ToolReturned(h, [from |-> src, to |-> dst, dry_run |-> FALSE, skipped |-> TRUE, reason |-> "dst_exists"])

\* tools/fs/move.py run
FsMove(h, args, dry_run) ==
    LET on_conflict == OnConflict(args)
        src == args.from
        dst == args.to
        inc == WithSuffixIncrement(h, dst)
        resolved_dst == IF Exists(h, dst) /\ on_conflict = "suffix_increment" THEN inc.path ELSE dst
        dst_exists == Exists(h, dst)
        would_skip == dst_exists /\ on_conflict = "skip"
        would_error == dst_exists /\ on_conflict = "error"
    IN IF on_conflict \notin {"error", "overwrite", "skip", "suffix_increment"}
       THEN ToolRaised(h, "ValueError")
       ELSE IF dst_exists /\ on_conflict = "suffix_increment" /\ ~inc.found
       THEN ToolRaised(h, "FileExistsError")
       ELSE IF SourceMissingFails(h, src, dry_run) THEN ToolRaised(h, "FileNotFoundError")
       ELSE IF dry_run
       THEN ToolReturned(h, [from |-> src, to |-> resolved_dst, dry_run |-> TRUE,
                             src_exists |-> Exists(h, src), dst_exists |-> dst_exists,
                             on_conflict |-> on_conflict, resolved_to |-> resolved_dst,
                             resolved_dst_exists |-> Exists(h, resolved_dst),
                             would_move |-> ~would_skip /\ ~would_error,
                             would_skip |-> would_skip, would_error |-> would_error,
                             would_overwrite |-> dst_exists /\ on_conflict = "overwrite",
                             would_suffix_increment |-> dst_exists /\ on_conflict = "suffix_increment"])
       ELSE IF dst_exists /\ on_conflict = "skip" THEN SkipResult(h, src, dst)
       ELSE IF dst_exists /\ on_conflict = "error" THEN ToolRaised(h, "FileExistsError")
       ELSE ToolReturned(Rename(h, src, resolved_dst),
                         [from |-> src, to |-> resolved_dst, dry_run |-> FALSE, skipped |-> FALSE, reason |-> ""])

\* a mkdir that creates the directory in a dry run too
FsMkdirAlways(h, args, dry_run) ==
    ToolReturned([h EXCEPT !.dirs = @ \cup {args.path}], [dry_run |-> dry_run, created |-> args.path \notin h.dirs])

\* tools/fs/mkdir.py run, for a directory below the root
FsMkdir(h, args, dry_run) ==
    IF dry_run THEN ToolReturned(h, [dry_run |-> TRUE, created |-> args.path \notin h.dirs])
    ELSE IF args.path \in h.dirs /\ ~args.exist_ok THEN ToolRaised(h, "FileExistsError")
    ELSE ToolReturned([h EXCEPT !.dirs = @ \cup {args.path}], [dry_run |-> FALSE, created |-> args.path \notin h.dirs])

\* tools/fs/stat.py run: path.stat() raises for a missing path, dry run or not
FsStat(h, args, dry_run) ==
    IF ~Exists(h, args.path) THEN ToolRaised(h, "FileNotFoundError")
    ELSE ToolReturned(h, [dry_run |-> dry_run, is_file |-> TRUE])

\* tools/fs/list.py run, for a directory below the root
FsList(h, args, dry_run) ==
    IF args.path \notin h.dirs THEN ToolReturned(h, [dry_run |-> dry_run, exists |-> FALSE])
    ELSE ToolReturned(h, [dry_run |-> dry_run, exists |-> TRUE])

\* tools/notify/send.py run
NotifySend(h, args, dry_run) ==
    IF args.message = <<>> THEN ToolRaised(h, "ValueError")
    ELSE IF dry_run THEN ToolReturned(h, [dry_run |-> TRUE, sent |-> FALSE])
    ELSE ToolReturned([h EXCEPT !.sent = @ + 1], [dry_run |-> FALSE, sent |-> TRUE])

\* tools/app/open.py and tools/app/quit.py run, name being the target or the app_id
AppTool(h, name, dry_run) ==
    IF name = <<>> THEN ToolRaised(h, "ValueError")
    ELSE IF dry_run THEN ToolReturned(h, [dry_run |-> TRUE])
    ELSE ToolRaised(h, "NotImplementedError")

\* tools/net/http.py run; answered tells whether the request got a response
NetHttp(h, args, dry_run, answered) ==
    IF args.url = <<>> THEN ToolRaised(h, "ValueError")
    ELSE IF dry_run THEN ToolReturned(h, [dry_run |-> TRUE])
    ELSE IF answered THEN ToolReturned([h EXCEPT !.conns = @ + 1], [dry_run |-> FALSE])
    ELSE ToolRaised([h EXCEPT !.conns = @ + 1], "URLError")

\* file names: b.t, its candidates b(i).t, the suffix-less b and b(1), and a.t
NameBT == <<"b", ".", "t">>
NameB == <<"b">>
NameAT == <<"a", ".", "t">>

\* files the host may hold before the call
FsPathInputs ==
    {FsPath("e", NameAT), FsPath("d", NameBT), FsPath("d", NameB), FsPath("d", NameB \o <<"(", "1", ")">>)}
    \cup {Candidate(FsPath("d", NameBT), i) : i \in 1..MaxTries}

\* paths given as from / to: those, and a path in a directory that does not exist
MovePathInputs == FsPathInputs \cup {FsPath("f", NameAT)}

\* the contents a file has before the call: one value per path
ContentOf(path) == <<path.dir, path.name>>

FsMoveArgsInputs ==
    [from : MovePathInputs, to : MovePathInputs,
     on_conflict : {"absent", "error", "overwrite", "skip", "suffix_increment", "replace"},
     overwrite : BOOLEAN]

InitTools ==
    /\ KernelIdle
    /\ ScopeIdle
    /\ PlannerIdle
    /\ FileIdle
    /\ TidyIdle
    /\ EnvIdle
    /\ clock = 0
    /\ stamps = <<>>
    /\ \E files \in SUBSET FsPathInputs :
          hostState = [fs |-> [q \in files |-> ContentOf(q)], dirs |-> {"d", "e"}, sent |-> 0, conns |-> 0]
    /\ toolOut = NoToolOut

\* what a call leaves behind: the host, and the call with its result
Called(tool_id, args, dry_run, r) ==
    /\ hostState' = r.hostState
    /\ toolOut' = [status |-> r.status, error |-> r.error, out |-> r.out,
                   tool_id |-> tool_id, args |-> args, dry_run |-> dry_run, before |-> hostState]
    /\ UNCHANGED <<clock, stamps>>
    /\ UNCHANGED <<kernelVars, scopeVars, plannerVars, fileVars, tidyVars, envVars>>

FsMoveRun ==
    /\ toolOut = NoToolOut
    /\ \E args \in FsMoveArgsInputs, dry_run \in BOOLEAN :
          Called("fs.move", args, dry_run, FsMove(hostState, args, dry_run))

FsMkdirRun ==
    /\ toolOut = NoToolOut
    /\ \E args \in [path : {"d", "f"}, exist_ok : BOOLEAN], dry_run \in BOOLEAN :
          Called("fs.mkdir", args, dry_run, FsMkdir(hostState, args, dry_run))

FsStatRun ==
    /\ toolOut = NoToolOut
    /\ \E args \in [path : MovePathInputs], dry_run \in BOOLEAN :
          Called("fs.stat", args, dry_run, FsStat(hostState, args, dry_run))

FsListRun ==
    /\ toolOut = NoToolOut
    /\ \E args \in [path : {"d", "f"}], dry_run \in BOOLEAN :
          Called("fs.list", args, dry_run, FsList(hostState, args, dry_run))

NotifySendRun ==
    /\ toolOut = NoToolOut
    /\ \E args \in [message : {<<>>, <<"m">>}], dry_run \in BOOLEAN :
          Called("notify.send", args, dry_run, NotifySend(hostState, args, dry_run))

AppOpenRun ==
    /\ toolOut = NoToolOut
    /\ \E args \in [target : {<<>>, <<"m">>}], dry_run \in BOOLEAN :
          Called("app.open", args, dry_run, AppTool(hostState, args.target, dry_run))

AppQuitRun ==
    /\ toolOut = NoToolOut
    /\ \E args \in [app_id : {<<>>, <<"m">>}], dry_run \in BOOLEAN :
          Called("app.quit", args, dry_run, AppTool(hostState, args.app_id, dry_run))

NetHttpRun ==
    /\ toolOut = NoToolOut
    /\ \E args \in [url : {<<>>, <<"u">>}], dry_run \in BOOLEAN, answered \in BOOLEAN :
          Called("net.http", args, dry_run, NetHttp(hostState, args, dry_run, answered))

NextTools ==
    \/ FsMoveRun
    \/ FsMkdirRun
    \/ FsStatRun
    \/ FsListRun
    \/ NotifySendRun
    \/ AppOpenRun
    \/ AppQuitRun
    \/ NetHttpRun

SpecTools == InitTools /\ [][NextTools]_vars

\* a tool has been called
ToolCalled(tool_id) == toolOut.status # "none" /\ toolOut.tool_id = tool_id

\* fs.move has been called in commit mode with the given conflict policy in
\* force and a destination that existed
CommitMoveOntoExisting(policy) ==
    /\ ToolCalled("fs.move")
    /\ ~toolOut.dry_run
    /\ OnConflict(toolOut.args) = policy
    /\ Exists(toolOut.before, toolOut.args.to)

\* path is {stem}({n}){suffix} of dst for the lowest n >= 1 whose name did not
\* exist on the host h
LowestFreeCandidate(h, dst, path) ==
    \E n \in 1..(MaxTries + 1) :
        /\ path = Candidate(dst, n)
        /\ ~Exists(h, path)
        /\ \A k \in 1..(n - 1) : Exists(h, Candidate(dst, k))

\* the move to the lowest free candidate has happened: the source is gone, the
\* destination is as it was, the new file has the source's contents
MovedToCandidate ==
    /\ toolOut.status = "returned"
    /\ LowestFreeCandidate(toolOut.before, toolOut.args.to, toolOut.out.to)
    /\ ~Exists(hostState, toolOut.args.from)
    /\ Exists(hostState, toolOut.args.to)
    /\ hostState.fs[toolOut.args.to] = toolOut.before.fs[toolOut.args.to]
    /\ Exists(hostState, toolOut.out.to)
    /\ hostState.fs[toolOut.out.to] = toolOut.before.fs[toolOut.args.from]

CandidatesExhausted(h, dst) == \A k \in 1..MaxTries : Exists(h, Candidate(dst, k))

SkippedUntouched ==
    /\ toolOut.status = "returned"
    /\ toolOut.out.skipped
    /\ toolOut.out.reason = "dst_exists"
    /\ hostState = toolOut.before

\* C23 as stated: in commit mode with on_conflict=skip and an existing
\* destination, fs.move returns skipped=true, reason="dst_exists" and leaves
\* source and destination untouched.
C23_Original ==
    (/\ ToolCalled("fs.move")
     /\ ~toolOut.dry_run
     /\ toolOut.args.on_conflict = "skip"
     /\ Exists(toolOut.before, toolOut.args.to)) => SkippedUntouched

\* C23: in commit mode with an existing destination and skip in force
\* (on_conflict=skip and the overwrite flag not set), fs.move returns
\* skipped=true, reason="dst_exists" and leaves the host untouched if the source
\* exists, and raises FileNotFoundError, the host untouched as well, if it does
\* not.  With on_conflict=skip and overwrite=true the policy in force is
\* overwrite: an existing source replaces the destination.
C23_SkipLeavesBoth ==
    /\ CommitMoveOntoExisting("skip") =>
          IF Exists(toolOut.before, toolOut.args.from)
          THEN SkippedUntouched
          ELSE toolOut.status = "raised" /\ toolOut.error = "FileNotFoundError" /\ hostState = toolOut.before
    /\ (/\ CommitMoveOntoExisting("overwrite")
        /\ toolOut.args.on_conflict = "skip"
        /\ Exists(toolOut.before, toolOut.args.from)
        /\ toolOut.args.from # toolOut.args.to) =>
          /\ toolOut.status = "returned"
          /\ ~toolOut.out.skipped
          /\ ~Exists(hostState, toolOut.args.from)
          /\ hostState.fs[toolOut.args.to] = toolOut.before.fs[toolOut.args.from]

\* an existing a.t was to be moved onto an existing b.t with skip: the call
\* returned skipped and both files are as before
C23_Witness ==
    /\ CommitMoveOntoExisting("skip")
    /\ toolOut.args.from = FsPath("e", NameAT)
    /\ toolOut.args.to = FsPath("d", NameBT)
    /\ Exists(toolOut.before, toolOut.args.from)
    /\ SkippedUntouched
    /\ hostState.fs[toolOut.args.from] = ContentOf(toolOut.args.from)
    /\ hostState.fs[toolOut.args.to] = ContentOf(toolOut.args.to)

\* C24: a built-in tool called with dry_run=true leaves the host as it was: no
\* file or directory created, moved, overwritten or removed, no notification
\* sent, no connection opened, whatever the arguments and the filesystem.
C24_DryRunLeavesHost ==
    (toolOut.status # "none" /\ toolOut.dry_run) => hostState = toolOut.before

\* a dry run of a move that commit mode would carry out (source there,
\* destination free) returned and left the host as it was
C24_Witness ==
    /\ ToolCalled("fs.move")
    /\ toolOut.dry_run
    /\ toolOut.status = "returned"
    /\ Exists(toolOut.before, toolOut.args.from)
    /\ ~Exists(toolOut.before, toolOut.args.to)
    /\ toolOut.out.would_move
    /\ hostState = toolOut.before
    /\ Exists(hostState, toolOut.args.from)

\* the result of a dry run of fs.move: the five booleans, and resolved_to the
\* path suffix resolution chooses
DryRunReport ==
    LET dst_exists == Exists(toolOut.before, toolOut.args.to)
        policy == OnConflict(toolOut.args)
    IN /\ toolOut.status = "returned"
       /\ toolOut.out.dry_run
       /\ toolOut.out.would_skip = (dst_exists /\ policy = "skip")
       /\ toolOut.out.would_error = (dst_exists /\ policy = "error")
       /\ toolOut.out.would_overwrite = (dst_exists /\ policy = "overwrite")
       /\ toolOut.out.would_suffix_increment = (dst_exists /\ policy = "suffix_increment")
       /\ toolOut.out.would_move = (~toolOut.out.would_skip /\ ~toolOut.out.would_error)
       /\ IF dst_exists /\ policy = "suffix_increment"
          THEN LowestFreeCandidate(toolOut.before, toolOut.args.to, toolOut.out.resolved_to)
          ELSE toolOut.out.resolved_to = toolOut.args.to

\* fs.move has been called in dry-run with a valid (or no) on_conflict
DryRunMove ==
    /\ ToolCalled("fs.move")
    /\ toolOut.dry_run
    /\ toolOut.args.on_conflict \in {"absent", "error", "overwrite", "skip", "suffix_increment"}

\* C25 as stated: a dry run of fs.move returns the report for any from/to and
\* any valid on_conflict.
C25_Original == DryRunMove => DryRunReport

\* C25: a dry run of fs.move never fails because the source is missing.  For
\* any from/to and any valid on_conflict it returns the five booleans and the
\* resolved_to that suffix resolution chooses, except when suffix_increment is
\* in force, the destination exists and every candidate 1..max_tries exists
\* too: then it raises FileExistsError.  The host is unchanged either way.
C25_DryRunMove ==
    DryRunMove =>
        /\ hostState = toolOut.before
        /\ IF /\ Exists(toolOut.before, toolOut.args.to)
              /\ OnConflict(toolOut.args) = "suffix_increment"
              /\ CandidatesExhausted(toolOut.before, toolOut.args.to)
           THEN toolOut.status = "raised" /\ toolOut.error = "FileExistsError"
           ELSE DryRunReport

\* a dry run with a missing source onto an existing b.t with suffix_increment
\* returned would_move and resolved_to = b(1).t
C25_Witness ==
    /\ DryRunMove
    /\ ~Exists(toolOut.before, toolOut.args.from)
    /\ toolOut.args.to = FsPath("d", NameBT)
    /\ Exists(toolOut.before, toolOut.args.to)
    /\ OnConflict(toolOut.args) = "suffix_increment"
    /\ DryRunReport
    /\ ~toolOut.out.src_exists
    /\ toolOut.out.would_move
    /\ toolOut.out.resolved_to = Candidate(toolOut.args.to, 1)

----------------------------------------------------------------------------
(* The config-driven desktop-tidy planner (plugins/builtin_desktop/         *)
(* planner.py, _plan_tidy_from_config and                                  *)
(* _build_moves_from_entries_config).  Strings are sequences of            *)
(* characters, "/" the path separator.  The config has loaded and its      *)
(* root.path and root.staging_dir are among the scope's fs_roots; no       *)
(* exclude or ignore pattern is given.                                     *)

\* most rules of a config
MaxRules == 2

\* most entries of params.entries
MaxEntries == 2

\* root.path and root.staging_dir of the config
RootPath == <<"/", "r">>
StagingDir == <<"/", "s">>

\* the characters of the model in code point order
CodePoints == <<".", "/", "D", "F", "P", "T", "_", "a", "b", "d", "j", "n", "p", "r", "s", "t", "x">>

CodePoint(c) == CHOOSE k \in 1..Len(CodePoints) : CodePoints[k] = c

\* str < str
RECURSIVE StrLess(_, _)
StrLess(a, b) ==
    IF a = <<>> THEN b # <<>>
    ELSE IF b = <<>> THEN FALSE
    ELSE IF a[1] = b[1] THEN StrLess(Tail(a), Tail(b))
    ELSE CodePoint(a[1]) < CodePoint(b[1])

\* sorted(set of strings)
RECURSIVE SortedStrs(_)
SortedStrs(S) ==
    IF S = {} THEN <<>>
    ELSE LET least == CHOOSE x \in S : \A y \in S \ {x} : StrLess(x, y)
         IN <<least>> \o SortedStrs(S \ {least})

\* _ext: the part after the last dot ("" without a dot or with the dot last)
Ext(name) ==
    LET i == LastDot(name)
    IN IF i = 0 \/ i = Len(name) THEN <<>> ELSE SubSeq(name, i + 1, Len(name))

\* should_skip, with no exclude and no ignore pattern
ShouldSkip(name) == name = <<>> \/ name[1] = "."

\* match_atom: an ext_in atom looks at the extension, a created_within_days
\* atom compares the entry's mtime with now = int(time.time()) of line 445
\* (the clock, counted in days), an atom with no known key matches nothing
MatchAtom(atom, entry) ==
    IF atom.kind = "ext_in" THEN Ext(entry.name) \in atom.exts
    ELSE IF atom.kind = "created_within_days"
    THEN "mtime" \in DOMAIN entry /\ clock - entry.mtime <= atom.days
    ELSE FALSE

\* match_rule
MatchRule(rule, entry) ==
    LET any_ok == IF rule.any # <<>> THEN \E k \in 1..Len(rule.any) : MatchAtom(rule.any[k], entry) ELSE TRUE
        all_ok == IF rule.all # <<>> THEN \A k \in 1..Len(rule.all) : MatchAtom(rule.all[k], entry) ELSE TRUE
    IN any_ok /\ all_ok

\* a rule loop that keeps the last match
LastMatch(rules, entry) ==
    LET hits == {k \in 1..Len(rules) : MatchRule(rules[k], entry)}
    IN IF hits = {} THEN 0 ELSE CHOOSE k \in hits : \A j \in hits : j <= k

\* lines 588-593: `for r in rules: if match_rule(r, item): ... break`, the
\* index of the rule the loop stops at (0 when it runs to the end)
FirstMatch(rules, entry) ==
    LET hits == {k \in 1..Len(rules) : MatchRule(rules[k], entry)}
    IN IF hits = {} THEN 0 ELSE CHOOSE k \in hits : \A j \in hits : k <= j

\* resolve_move_to
ResolveMoveTo(folders, move_to) ==
    IF move_to \in DOMAIN folders /\ folders[move_to] # <<>> THEN folders[move_to] ELSE move_to

\* lines 584-593: the destination of an entry before validation
DestSub(cfg, entry) ==
    IF entry.is_dir THEN <<"F">>
    ELSE LET k == FirstMatch(cfg.rules, entry)
         IN IF k # 0 /\ cfg.rules[k].action.move_to # <<>>
            THEN ResolveMoveTo(cfg.folders, cfg.rules[k].action.move_to)
            ELSE ResolveMoveTo(cfg.folders, cfg.unmatched_move_to)

\* str.split("/") without the empty parts
RECURSIVE SplitSlash(_, _)
SplitSlash(str, cur) ==
    IF str = <<>> THEN (IF cur = <<>> THEN <<>> ELSE <<cur>>)
    ELSE IF str[1] = "/" THEN (IF cur = <<>> THEN <<>> ELSE <<cur>>) \o SplitSlash(Tail(str), <<>>)
    ELSE SplitSlash(Tail(str), Append(cur, str[1]))

\* "/".join(parts)
RECURSIVE JoinSlash(_)
JoinSlash(parts) ==
    IF parts = <<>> THEN <<>>
    ELSE IF Len(parts) = 1 THEN parts[1]
    ELSE parts[1] \o <<"/">> \o JoinSlash(Tail(parts))

\* validate_dest_subpath: the normalized subpath, or config.invalid (ok = FALSE)
ValidateDestSubpath(dest_sub) ==
    LET parts == SplitSlash(dest_sub, <<>>)
    IN IF parts = <<>> THEN [ok |-> FALSE, value |-> dest_sub]
       ELSE IF dest_sub[1] = "/" THEN [ok |-> FALSE, value |-> dest_sub]
       ELSE IF \E k \in 1..Len(parts) : parts[k] \in {<<".">>, <<".", ".">>} THEN [ok |-> FALSE, value |-> dest_sub]
       ELSE [ok |-> TRUE, value |-> JoinSlash(parts)]

\* lines 572-582: the entry gets no step
EntrySkipped(entry, include_dirs) ==
    \/ entry.name = <<>>
    \/ ShouldSkip(entry.name)
    \/ entry.is_dir /\ ~include_dirs
    \/ ~entry.is_file /\ ~entry.is_dir

\* str.replace("/", "_")
SlashToUnderscore(str) == [k \in 1..Len(str) |-> IF str[k] = "/" THEN "_" ELSE str[k]]

TidyStep(step_id, tool_id, from, to) == [step_id |-> step_id, tool_id |-> tool_id, from |-> from, to |-> to]

\* f"commit_move_{i:04d}"
MoveStepId(i) == <<"commit_move_", ToString(i)>>

\* the for-loop of lines 565-631 from entry i on: the move steps and the
\* destination directories, or the first config.invalid
RECURSIVE MovesFrom(_, _, _, _)
MovesFrom(cfg, entries, include_dirs, i) ==
    IF i > Len(entries) THEN [ok |-> TRUE, steps |-> <<>>, dirs |-> {}]
    ELSE LET rest == MovesFrom(cfg, entries, include_dirs, i + 1)
             entry == entries[i]
             dest == ValidateDestSubpath(DestSub(cfg, entry))
             dest_dir == StagingDir \o <<"/">> \o dest.value
         IN IF EntrySkipped(entry, include_dirs) THEN rest
            ELSE IF ~dest.ok THEN [ok |-> FALSE, steps |-> <<>>, dirs |-> {}]
            ELSE IF ~rest.ok THEN rest
            ELSE [ok |-> TRUE,
                  steps |-> <<TidyStep(MoveStepId(i), "fs.move",
                                        RootPath \o <<"/">> \o entry.name,
                                        dest_dir \o <<"/">> \o entry.name)>> \o rest.steps,
                  dirs |-> {dest_dir} \cup rest.dirs]

\* lines 377-386: one fs.mkdir step per created directory
MkdirSteps(dirs) ==
    [k \in 1..Len(dirs) |-> TidyStep(<<"commit_mkdir_">> \o SlashToUnderscore(dirs[k]), "fs.mkdir", <<>>, dirs[k])]

\* _plan_tidy_from_config after the config is loaded and the scope checked
PlanTidy(cfg, entries, include_dirs, preview) ==
    LET built == MovesFrom(cfg, entries, include_dirs, 1)
    IN IF ~built.ok
       THEN [status |-> "raised", code |-> "config.invalid", plan_id |-> <<>>, steps |-> <<>>]
       ELSE [status |-> "returned", code |-> "",
             plan_id |-> IF preview THEN <<"plan_desktop_tidy_preview_001">> ELSE <<"plan_desktop_tidy_run_001">>,
             steps |-> << TidyStep(<<"staging_list_root">>, "fs.list", <<>>, RootPath),
                          TidyStep(<<"commit_create_staging_dir">>, "fs.mkdir", <<>>, StagingDir) >>
                       \o MkdirSteps(SortedStrs(built.dirs))
                       \o built.steps
                       \o << TidyStep(<<"commit_notify">>, "notify.send", <<>>, <<>>) >>]

\* folder keys of the configs
KeyImages == <<"i">>
KeyDownloads == <<"d">>

ExtIn(exts) == [kind |-> "ext_in", exts |-> exts]
OtherAtom == [kind |-> "other", exts |-> {}]
MoveTo(key) == [move_to |-> key, delete |-> FALSE]
DeleteAction == [move_to |-> <<>>, delete |-> TRUE]

\* rules of the configs: by extension j (images) and t (delete), a rule with
\* no atoms, one with any and all lists, one whose all list cannot hold
RuleInputs ==
    { [any |-> <<ExtIn({<<"j">>})>>, all |-> <<>>, action |-> MoveTo(KeyImages)],
      [any |-> <<ExtIn({<<"t">>})>>, all |-> <<>>, action |-> DeleteAction],
      [any |-> <<>>, all |-> <<>>, action |-> MoveTo(KeyDownloads)],
      [any |-> <<OtherAtom, ExtIn({<<"j">>, <<"t">>})>>, all |-> <<ExtIn({<<"j">>})>>, action |-> MoveTo(KeyDownloads)],
      [any |-> <<>>, all |-> <<ExtIn({<<"j">>}), ExtIn({<<"t">>})>>, action |-> MoveTo(KeyImages)] }

\* the folders section: relative names, an absolute path, and two subpaths
\* that differ in "/" against "_" only
FoldersInputs ==
    { (KeyImages :> <<"P">>) @@ (KeyDownloads :> <<"D">>),
      (KeyImages :> <<"/", "p">>) @@ (KeyDownloads :> <<"D">>),
      (KeyImages :> <<"a", "/", "b">>) @@ (KeyDownloads :> <<"a", "_", "b">>) }

CfgInputs ==
    { [folders |-> f, rules |-> r, unmatched_move_to |-> KeyDownloads] :
        f \in FoldersInputs, r \in UNION {[1..n -> RuleInputs] : n \in 0..MaxRules} }

\* entries: p.j, a.t and n.b, a hidden file and a directory
EntryInputs ==
    { [name |-> <<"p", ".", "j">>, is_file |-> TRUE, is_dir |-> FALSE],
      [name |-> <<"a", ".", "t">>, is_file |-> TRUE, is_dir |-> FALSE],
      [name |-> <<"n", ".", "b">>, is_file |-> TRUE, is_dir |-> FALSE],
      [name |-> <<".", "x">>, is_file |-> TRUE, is_dir |-> FALSE],
      [name |-> <<"x">>, is_file |-> FALSE, is_dir |-> TRUE] }

EntriesInputs == UNION {[1..n -> EntryInputs] : n \in 0..MaxEntries}

InitTidy ==
    /\ KernelIdle
    /\ ScopeIdle
    /\ PlannerIdle
    /\ FileIdle
    /\ HostIdle
    /\ tidy = NoTidy
    /\ EnvIdle

\* BuiltinDesktopPlanner.plan for desktop.tidy.preview / desktop.tidy.run
PlanTidyFromConfig ==
    /\ tidy = NoTidy
    /\ \E cfg \in CfgInputs, entries \in EntriesInputs, include_dirs \in BOOLEAN, preview \in BOOLEAN :
          tidy' = [cfg |-> cfg, entries |-> entries, include_dirs |-> include_dirs]
                  @@ PlanTidy(cfg, entries, include_dirs, preview)
    /\ UNCHANGED <<kernelVars, scopeVars, plannerVars, fileVars, hostVars, envVars>>

NextTidy == PlanTidyFromConfig

SpecTidy == InitTidy /\ [][NextTidy]_vars

\* the planner returned a plan
TidyReturned == tidy.status = "returned"

\* entry i is a file that gets a step
RoutedFile(i) ==
    /\ i \in 1..Len(tidy.entries)
    /\ tidy.entries[i].is_file
    /\ ~tidy.entries[i].is_dir
    /\ ~EntrySkipped(tidy.entries[i], tidy.include_dirs)

\* the plan has the fs.move step of entry i, and it goes to `to`
HasMoveStep(i, to) ==
    \E k \in 1..Len(tidy.steps) :
        /\ tidy.steps[k].step_id = MoveStepId(i)
        /\ tidy.steps[k].tool_id = "fs.move"
        /\ tidy.steps[k].from = RootPath \o <<"/">> \o tidy.entries[i].name
        /\ tidy.steps[k].to = to

\* a rule matches an entry: its any list is empty or some any-atom matches, and
\* its all list is empty or every all-atom matches
RuleMatches(rule, entry) ==
    /\ rule.any = <<>> \/ \E k \in 1..Len(rule.any) : MatchAtom(rule.any[k], entry)
    /\ rule.all = <<>> \/ \A k \in 1..Len(rule.all) : MatchAtom(rule.all[k], entry)

\* the rules of the config that match entry i, by index
MatchingRules(i) ==
    {k \in 1..Len(tidy.cfg.rules) : RuleMatches(tidy.cfg.rules[k], tidy.entries[i])}

\* the first rule that matches entry i (0 when none does)
FirstMatching(i) ==
    IF MatchingRules(i) = {} THEN 0 ELSE CHOOSE k \in MatchingRules(i) : \A j \in MatchingRules(i) : k <= j

\* the move_to that routes entry i: that of the first matching rule if it has
\* one, else defaults.unmatched_action.move_to
RoutingKey(i) ==
    IF FirstMatching(i) # 0 /\ tidy.cfg.rules[FirstMatching(i)].action.move_to # <<>>
    THEN tidy.cfg.rules[FirstMatching(i)].action.move_to
    ELSE tidy.cfg.unmatched_move_to

\* C26: a file whose first matching rule has action delete:true gets an fs.move
\* step to <staging_dir>/ToDelete/<name>, and no generated step deletes.
C26_Original ==
    TidyReturned =>
        /\ \A i \in 1..Len(tidy.entries) :
              (/\ RoutedFile(i)
               /\ FirstMatching(i) # 0
               /\ tidy.cfg.rules[FirstMatching(i)].action.delete)
              => HasMoveStep(i, StagingDir \o <<"/", "ToDelete", "/">> \o tidy.entries[i].name)
        /\ \A k \in 1..Len(tidy.steps) :
              tidy.steps[k].tool_id \in {"fs.list", "fs.mkdir", "fs.move", "notify.send"}

\* C27: a file routed by a folder key whose folder is declared as an absolute
\* path is moved to <folders[key]>/<name>; the key is the move_to of the first
\* matching rule, or defaults.unmatched_action.move_to when no rule matches.
C27_Original ==
    tidy.status # "none" =>
        \A i \in 1..Len(tidy.entries) :
            (/\ RoutedFile(i)
             /\ RoutingKey(i) \in DOMAIN tidy.cfg.folders
             /\ tidy.cfg.folders[RoutingKey(i)][1] = "/")
            => /\ TidyReturned
               /\ HasMoveStep(i, tidy.cfg.folders[RoutingKey(i)] \o <<"/">> \o tidy.entries[i].name)

MoveStepPositions == {k \in 1..Len(tidy.steps) : tidy.steps[k].tool_id = "fs.move"}

\* C29: the fs.move steps of a plan appear in ascending order of entry name,
\* whatever the order of params.entries.
C29_Original ==
    TidyReturned =>
        \A k \in MoveStepPositions : \A l \in MoveStepPositions :
            k < l => ~StrLess(tidy.steps[l].from, tidy.steps[k].from)

\* C30: a plan has a non-empty plan_id and non-empty step_ids that are
\* pairwise distinct.
C30_Original ==
    TidyReturned =>
        /\ tidy.plan_id # <<>>
        /\ \A k \in 1..Len(tidy.steps) : tidy.steps[k].step_id # <<>>
        /\ \A k \in 1..Len(tidy.steps) : \A l \in 1..Len(tidy.steps) :
              k # l => tidy.steps[k].step_id # tidy.steps[l].step_id

----------------------------------------------------------------------------
(* The steps of the tidy planner against the registered args_schema.       *)

\* safety.collision_strategy when the config names none (line 440)
CollisionStrategy == <<"suffix_increment">>

\* the "args" object the planner writes into a step: lines 351, 358 and 381
\* for fs.list and fs.mkdir, line 619 for fs.move, line 397 for notify.send
TidyToolArgs(step) ==
    CASE step.tool_id = "fs.list" -> [path |-> StrVal(step.to)]
      [] step.tool_id = "fs.mkdir" ->
            [path |-> StrVal(step.to), parents |-> BoolVal(TRUE), exist_ok |-> BoolVal(TRUE)]
      [] step.tool_id = "fs.move" ->
            [from |-> StrVal(step.from), to |-> StrVal(step.to), on_conflict |-> StrVal(CollisionStrategy)]
      [] OTHER -> [message |-> StrVal(<<"summary">>)]

\* Executor.execute's args validation of a planner step under build_tool_registry()
TidyStepArgsValid(step) == ArgsValid(BuiltinTools[step.tool_id].args_schema, TidyToolArgs(step))

\* C31: every fs.move step of a plan the tidy planner returns passes the
\* args validation of the fs.move schema that build_tool_registry registers,
\* so the plan never fails with tool.args_invalid.
C31_Original ==
    TidyReturned =>
        \A k \in 1..Len(tidy.steps) :
            tidy.steps[k].tool_id = "fs.move" => TidyStepArgsValid(tidy.steps[k])

----------------------------------------------------------------------------
(* Two plan() calls with one intent and one config                         *)
(* (plugins/builtin_desktop/planner.py 445, 499-506).  The clock counts    *)
(* days; params.entries carry the mtime of the snapshot.                   *)

\* {"created_within_days": days}
CreatedWithinDays(days) == [kind |-> "created_within_days", exts |-> {}, days |-> days]

\* rules of the configs: recent files to images, files with extension j to images
TimedRuleInputs ==
    { [any |-> <<CreatedWithinDays(1)>>, all |-> <<>>, action |-> MoveTo(KeyImages)],
      [any |-> <<ExtIn({<<"j">>})>>, all |-> <<>>, action |-> MoveTo(KeyImages)] }

TimedCfgInputs ==
    { [folders |-> (KeyImages :> <<"P">>) @@ (KeyDownloads :> <<"D">>), rules |-> r, unmatched_move_to |-> KeyDownloads] :
        r \in UNION {[1..n -> TimedRuleInputs] : n \in 0..MaxRules} }

\* entries of the snapshot, with their mtime
TimedEntryInputs ==
    { [name |-> <<"p", ".", "j">>, is_file |-> TRUE, is_dir |-> FALSE, mtime |-> 0],
      [name |-> <<"n", ".", "b">>, is_file |-> TRUE, is_dir |-> FALSE, mtime |-> 1] }

TimedEntriesInputs == UNION {[1..n -> TimedEntryInputs] : n \in 0..MaxEntries}

InitTidyTwice ==
    /\ KernelIdle
    /\ ScopeIdle
    /\ PlannerIdle
    /\ FileIdle
    /\ clock \in 0..MaxClock
    /\ stamps = <<>>
    /\ hostState = NoHost
    /\ toolOut = NoToolOut
    /\ tidy = NoTidy
    /\ EnvIdle

\* the first plan() call of an intent
PlanTidyFirst ==
    /\ tidy = NoTidy
    /\ \E cfg \in TimedCfgInputs, entries \in TimedEntriesInputs, preview \in BOOLEAN :
          tidy' = [cfg |-> cfg, entries |-> entries, include_dirs |-> FALSE, preview |-> preview]
                  @@ PlanTidy(cfg, entries, FALSE, preview)
    /\ UNCHANGED <<kernelVars, scopeVars, plannerVars, fileVars, hostVars, envVars>>

\* a later plan() call with the same intent and the same config
PlanTidyAgain ==
    /\ tidy # NoTidy
    /\ "again" \notin DOMAIN tidy
    /\ tidy' = tidy @@ [again |-> PlanTidy(tidy.cfg, tidy.entries, tidy.include_dirs, tidy.preview)]
    /\ UNCHANGED <<kernelVars, scopeVars, plannerVars, fileVars, hostVars, envVars>>

NextTidyTwice == PlanTidyFirst \/ ClockAdvance \/ PlanTidyAgain

SpecTidyTwice == InitTidyTwice /\ [][NextTidyTwice]_vars

\* C33: plan is deterministic given the entries snapshot and the config: two
\* calls with the same intent and the same config content return identical
\* plans, whenever they are made.
C33_Original ==
    "again" \in DOMAIN tidy =>
        /\ tidy.again.status = tidy.status
        /\ tidy.again.plan_id = tidy.plan_id
        /\ tidy.again.steps = tidy.steps

----------------------------------------------------------------------------
(* PluginRegistry (nucleus/registry/plugin_registry.py).  A manifest is    *)
(* its plugin_id and the intent_ids of its intents list, in order; the     *)
(* manifests of a directory come in the order of sorted(glob), which is    *)
(* the order of the directory names and not of the plugin_ids.  Every      *)
(* manifest has passed plugin_manifest.schema.json.                        *)

\* most manifests beneath one plugins_dir
MaxManifests == 2

\* most load_from_dir calls on one registry
MaxLoads == 2

Manifest(plugin_id, intents) == [plugin_id |-> plugin_id, intents |-> intents]

\* PluginManifest.declares_intent
DeclaresIntent(m, intent_id) == \E k \in 1..Len(m.intents) : m.intents[k] = intent_id

ManifestInputs ==
    { Manifest("a", <<"x">>), Manifest("a", <<"y">>), Manifest("b", <<"x">>),
      Manifest("b", <<"y", "x">>), Manifest("b", <<"y">>), Manifest("c", <<"z", "z">>) }

PluginsDirInputs == UNION {[1..n -> ManifestInputs] : n \in 0..MaxManifests}

\* a dict with one more key (an existing key is overwritten)
DictSet(d, key, value) == [k \in DOMAIN d \cup {key} |-> IF k = key THEN value ELSE d[k]]

\* lines 68-74: the first loop, from manifest k on; the dict is kept as far as
\* it got when a manifest is refused
RECURSIVE RegisterManifests(_, _, _)
RegisterManifests(by_plugin_id, manifests, k) ==
    IF k > Len(manifests) THEN [code |-> "", by_plugin_id |-> by_plugin_id]
    ELSE IF manifests[k].plugin_id = ""
    THEN [code |-> "plugin_manifest.invalid", by_plugin_id |-> by_plugin_id]
    ELSE IF manifests[k].plugin_id \in DOMAIN by_plugin_id
    THEN [code |-> "plugin_manifest.duplicate", by_plugin_id |-> by_plugin_id]
    ELSE RegisterManifests(DictSet(by_plugin_id, manifests[k].plugin_id, manifests[k]), manifests, k + 1)

\* the (intent_id, plugin_id) pairs the second loop visits, in its order
RECURSIVE DeclaredPairs(_, _)
DeclaredPairs(manifests, k) ==
    IF k > Len(manifests) THEN <<>>
    ELSE [j \in 1..Len(manifests[k].intents) |-> <<manifests[k].intents[j], manifests[k].plugin_id>>]
         \o DeclaredPairs(manifests, k + 1)

\* an intent index that lets a later declaration replace an earlier one
RECURSIVE IndexIntentsOverwriting(_, _, _)
IndexIntentsOverwriting(by_intent_id, pairs, k) ==
    IF k > Len(pairs) THEN [code |-> "", by_intent_id |-> by_intent_id]
    ELSE IF pairs[k][1] = "" THEN IndexIntentsOverwriting(by_intent_id, pairs, k + 1)
    ELSE IndexIntentsOverwriting(DictSet(by_intent_id, pairs[k][1], pairs[k][2]), pairs, k + 1)

\* lines 76-90: the second loop, from pair k on
RECURSIVE IndexIntents(_, _, _)
IndexIntents(by_intent_id, pairs, k) ==
    IF k > Len(pairs) THEN [code |-> "", by_intent_id |-> by_intent_id]
    ELSE IF pairs[k][1] = "" THEN IndexIntents(by_intent_id, pairs, k + 1)
    ELSE IF pairs[k][1] \in DOMAIN by_intent_id
    THEN [code |-> "intent.duplicate", by_intent_id |-> by_intent_id]
    ELSE IndexIntents(DictSet(by_intent_id, pairs[k][1], pairs[k][2]), pairs, k + 1)

\* PluginRegistry.load_from_dir on a directory that exists
LoadFromDirOn(reg, manifests) ==
    LET first == RegisterManifests(reg.by_plugin_id, manifests, 1)
        second == IndexIntents(reg.by_intent_id, DeclaredPairs(manifests, 1), 1)
    IN IF first.code # ""
       THEN [reg EXCEPT !.by_plugin_id = first.by_plugin_id, !.last = first.code]
       ELSE [reg EXCEPT !.by_plugin_id = first.by_plugin_id, !.by_intent_id = second.by_intent_id,
                        !.last = IF second.code # "" THEN second.code ELSE "ok"]

\* PluginRegistry.resolve_plugin_id_for_intent: "" stands for None
ResolvePluginIdForIntent(reg, intent_id) ==
    IF intent_id \in DOMAIN reg.by_intent_id THEN reg.by_intent_id[intent_id] ELSE ""

InitRegistry ==
    /\ KernelIdle
    /\ ScopeIdle
    /\ PlannerIdle
    /\ FileIdle
    /\ HostIdle
    /\ TidyIdle
    /\ pluginReg = NoPluginReg
    /\ contracts = NoContracts
    /\ fsRun = NoFsRun
    /\ movers = NoMovers

\* one load_from_dir call; the caller may catch the ValidationError and go on
LoadFromDir ==
    /\ pluginReg.loads < MaxLoads
    /\ \E manifests \in PluginsDirInputs :
          LET out == LoadFromDirOn(pluginReg, manifests)
          IN pluginReg' = [out EXCEPT !.dir = manifests, !.loads = pluginReg.loads + 1,
                                      !.failed = pluginReg.failed \/ out.last # "ok"]
    /\ UNCHANGED <<kernelVars, scopeVars, plannerVars, fileVars, hostVars, tidyVars, contracts, fsRun, movers>>

NextRegistry == LoadFromDir

SpecRegistry == InitRegistry /\ [][NextRegistry]_vars

\* two manifests of the directory share a plugin_id
SharedPluginId(manifests) ==
    \E i \in 1..Len(manifests) : \E j \in 1..Len(manifests) :
        i # j /\ manifests[i].plugin_id = manifests[j].plugin_id

\* an intent_id is declared by manifests of two plugins of the directory
SharedIntentId(manifests) ==
    \E i \in 1..Len(manifests) : \E j \in 1..Len(manifests) :
        /\ manifests[i].plugin_id # manifests[j].plugin_id
        /\ \E k \in 1..Len(manifests[i].intents) : DeclaresIntent(manifests[j], manifests[i].intents[k])

\* the registered plugins whose manifest declares the intent
DeclaringPlugins(intent_id) ==
    {pid \in DOMAIN pluginReg.by_plugin_id : DeclaresIntent(pluginReg.by_plugin_id[pid], intent_id)}

\* C34: load_from_dir rejects a directory in which two manifests share a
\* plugin_id (plugin_manifest.duplicate) or in which one intent_id is declared
\* by more than one plugin (intent.duplicate or, when one of the plugins was
\* refused first, plugin_manifest.duplicate); after loads that all succeeded
\* every registered intent_id resolves to the one registered plugin whose
\* manifest declares it.
C34_NoDuplicates ==
    /\ pluginReg.loads > 0 /\ SharedPluginId(pluginReg.dir) => pluginReg.last = "plugin_manifest.duplicate"
    /\ pluginReg.loads > 0 /\ SharedIntentId(pluginReg.dir)
          => pluginReg.last \in {"plugin_manifest.duplicate", "intent.duplicate"}
    /\ ~pluginReg.failed =>
          \A intent_id \in DOMAIN pluginReg.by_intent_id :
              DeclaringPlugins(intent_id) = {ResolvePluginIdForIntent(pluginReg, intent_id)}

\* two loads succeeded, each bringing one plugin with one intent; the registry
\* has refused nothing
C34_Witness ==
    /\ pluginReg.loads = 2
    /\ ~pluginReg.failed
    /\ DOMAIN pluginReg.by_plugin_id = {"a", "b"}
    /\ ResolvePluginIdForIntent(pluginReg, "x") = "a"
    /\ ResolvePluginIdForIntent(pluginReg, "y") = "b"

----------------------------------------------------------------------------
(* The memoized core ContractStore (nucleus/core/kernel.py 19-28) under    *)
(* the threaded HTTP API (nucleus/http_api.py 86-226): one Kernel, one     *)
(* thread per request, each thread running run_plan.  A thread may be      *)
(* switched out between any two statements of _core_contracts().           *)

\* most run_plan calls of one thread
MaxCalls == 2

InitContracts ==
    /\ KernelIdle
    /\ ScopeIdle
    /\ PlannerIdle
    /\ FileIdle
    /\ HostIdle
    /\ TidyIdle
    /\ pluginReg = NoPluginReg
    /\ contracts = NoContracts
    /\ fsRun = NoFsRun
    /\ movers = NoMovers

\* line 24: `if _CORE_CONTRACTS is None`, on entering run_plan (kernel.py 59)
CoreContractsCheck(t) ==
    /\ contracts.pc[t] = "idle"
    /\ contracts.calls[t] < MaxCalls
    /\ contracts' = [contracts EXCEPT !.calls[t] = @ + 1,
                                      !.pc[t] = IF contracts.cache = 0 THEN "load" ELSE "validate",
                                      !.store[t] = contracts.cache]
    /\ UNCHANGED <<kernelVars, scopeVars, plannerVars, fileVars, hostVars, tidyVars, pluginReg, fsRun, movers>>

\* lines 25-26: store = ContractStore(...); store.load()
CoreContractsLoad(t) ==
    /\ contracts.pc[t] = "load"
    /\ contracts' = [contracts EXCEPT !.built = @ + 1, !.store[t] = contracts.built + 1, !.pc[t] = "publish"]
    /\ UNCHANGED <<kernelVars, scopeVars, plannerVars, fileVars, hostVars, tidyVars, pluginReg, fsRun, movers>>

\* lines 27-28: _CORE_CONTRACTS = store; return _CORE_CONTRACTS
CoreContractsPublish(t) ==
    /\ contracts.pc[t] = "publish"
    /\ contracts' = [contracts EXCEPT !.cache = contracts.store[t], !.pc[t] = "validate"]
    /\ UNCHANGED <<kernelVars, scopeVars, plannerVars, fileVars, hostVars, tidyVars, pluginReg, fsRun, movers>>

\* kernel.py 59: .validate("plan.schema.json", plan) reads the store; the rest
\* of run_plan does not touch it
ContractsValidate(t) ==
    /\ contracts.pc[t] = "validate"
    /\ contracts' = [contracts EXCEPT !.pc[t] = "idle"]
    /\ UNCHANGED <<kernelVars, scopeVars, plannerVars, fileVars, hostVars, tidyVars, pluginReg, fsRun, movers>>

NextContracts ==
    \E t \in 1..MaxThreads :
        \/ CoreContractsCheck(t)
        \/ CoreContractsLoad(t)
        \/ CoreContractsPublish(t)
        \/ ContractsValidate(t)

SpecContracts == InitContracts /\ [][NextContracts]_vars

\* C35: across any number of run_plan calls in one process, concurrent calls
\* on different threads included, the core ContractStore is constructed and
\* loaded at most once.
C35_Original == contracts.built <= 1

----------------------------------------------------------------------------
(* run_plan over a filesystem with symbolic links: the policy resolves     *)
(* every path once, before the first step (policy_engine.py 131-149,       *)
(* scope.py 8-31); each tool resolves its paths again when it is called    *)
(* (executor.py 97-99, tools/fs/_path.py 7-9).  A path is the sequence of  *)
(* its components; scope.fs_roots is ["/t"].                               *)

\* scope.fs_roots[0], resolved
LinkRoot == << <<"t">> >>

\* the paths of the model
L_t_a == << <<"t">>, <<"a">> >>
L_t_b == << <<"t">>, <<"b">> >>
L_t_c == << <<"t">>, <<"c">> >>
L_o == << <<"o">> >>
L_t_a_s == << <<"t">>, <<"a">>, <<"s">> >>

\* a[:len(p)] == p, on component sequences
IsPrefixPath(p, a) == Len(a) >= Len(p) /\ SubSeq(a, 1, Len(p)) = p

\* Path.resolve() on an absolute path: a prefix that is a symbolic link is
\* replaced by its target; components that do not exist are kept as written
RECURSIVE ResolveLinks(_, _, _)
ResolveLinks(fs, done, rest) ==
    IF rest = <<>> THEN done
    ELSE LET next == Append(done, Head(rest))
         IN IF next \in DOMAIN fs.links
            THEN ResolveLinks(fs, fs.links[next], Tail(rest))
            ELSE ResolveLinks(fs, next, Tail(rest))

\* _normalize_path / expand_user_path on the filesystem as it is now
ResolveNow(fs, path) == ResolveLinks(fs, <<>>, path)

\* Path.exists() of a resolved path
NodeExists(fs, path) == path \in fs.dirs

\* is_within_any_root(p, roots) on the filesystem as it is now
InScopeNow(fs, path) == WithinRoot(PathStr(ResolveNow(fs, path)), PathStr(LinkRoot))

\* a path with the prefix src replaced by dst
Rebase(path, src, dst) == IF IsPrefixPath(src, path) THEN dst \o SubSeq(path, Len(src) + 1, Len(path)) ELSE path

\* Path.mkdir(parents=True, exist_ok=True)
MkdirParents(fs, path) == [fs EXCEPT !.dirs = @ \cup {SubSeq(path, 1, n) : n \in 1..Len(path)}]

\* src.rename(dst) of a directory: the subtree moves, the links beneath it
\* move with it and keep their targets
RenameTree(fs, src, dst) ==
    [dirs |-> {Rebase(d, src, dst) : d \in fs.dirs},
     links |-> [l \in {Rebase(k, src, dst) : k \in DOMAIN fs.links} |->
                    fs.links[CHOOSE k \in DOMAIN fs.links : Rebase(k, src, dst) = l]]]

\* the steps of the plans: fs.move and fs.mkdir with their path arguments
MoveStep(from, to) == [tool_id |-> "fs.move", paths |-> <<from, to>>]
MkdirStep(path) == [tool_id |-> "fs.mkdir", paths |-> <<path>>]

LinkStepInputs ==
    { MoveStep(L_t_a, L_t_b), MoveStep(L_t_a_s, L_t_b),
      MkdirStep(L_t_b), MkdirStep(Append(L_t_a_s, <<"x">>)),
      MkdirStep(Append(Append(L_t_b, <<"s">>), <<"x">>)), MkdirStep(Append(L_o, <<"x">>)) }

\* the host: /t/a holds a link s to /o (outside the root), or to /t/c (inside), or no link
LinkFsInputs ==
    { [dirs |-> {LinkRoot, L_t_a, L_o}, links |-> (L_t_a_s :> L_o)],
      [dirs |-> {LinkRoot, L_t_a, L_t_c, L_o}, links |-> (L_t_a_s :> L_t_c)],
      [dirs |-> {LinkRoot, L_t_a, L_o}, links |-> <<>>] }

InitLinks ==
    /\ KernelIdle
    /\ ScopeIdle
    /\ PlannerIdle
    /\ FileIdle
    /\ HostIdle
    /\ TidyIdle
    /\ pluginReg = NoPluginReg
    /\ contracts = NoContracts
    /\ movers = NoMovers
    /\ \E fs \in LinkFsInputs, steps \in UNION {[1..n -> LinkStepInputs] : n \in 0..MaxSteps} :
          fsRun = [pc |-> "start", fs |-> fs, steps |-> steps, idx |-> 0, calls |-> <<>>]

\* PolicyEngine.evaluate, the scope rule: every path of every fs.* step is
\* resolved now and must lie within the root
FsRunEvaluate ==
    /\ fsRun.pc = "start"
    /\ fsRun' = [fsRun EXCEPT !.pc =
                    IF \A k \in 1..Len(fsRun.steps) : \A j \in 1..Len(fsRun.steps[k].paths) :
                          InScopeNow(fsRun.fs, fsRun.steps[k].paths[j])
                    THEN "run" ELSE "denied"]
    /\ UNCHANGED <<kernelVars, scopeVars, plannerVars, fileVars, hostVars, tidyVars, pluginReg, contracts, movers>>

\* Executor.execute, one step in commit mode: the tool resolves its paths at
\* this moment and acts on the result; an exception of the tool ends the run
FsRunInvoke ==
    /\ fsRun.pc = "run"
    /\ fsRun.idx < Len(fsRun.steps)
    /\ LET step == fsRun.steps[fsRun.idx + 1]
           resolved == [j \in 1..Len(step.paths) |-> ResolveNow(fsRun.fs, step.paths[j])]
           call == [tool_id |-> step.tool_id, paths |-> resolved]
           moved == IF step.tool_id = "fs.move"
                    THEN NodeExists(fsRun.fs, resolved[1]) /\ ~NodeExists(fsRun.fs, resolved[2])
                    ELSE TRUE
           after == IF step.tool_id = "fs.mkdir" THEN MkdirParents(fsRun.fs, resolved[1])
                    ELSE IF moved
                    THEN RenameTree(MkdirParents(fsRun.fs, SubSeq(resolved[2], 1, Len(resolved[2]) - 1)),
                                    resolved[1], resolved[2])
                    ELSE fsRun.fs
       IN fsRun' = [fsRun EXCEPT !.fs = after, !.idx = @ + 1, !.calls = Append(@, call),
                                 !.pc = IF ~moved THEN "failed"
                                        ELSE IF fsRun.idx + 1 = Len(fsRun.steps) THEN "done" ELSE "run"]
    /\ UNCHANGED <<kernelVars, scopeVars, plannerVars, fileVars, hostVars, tidyVars, pluginReg, contracts, movers>>

NextLinks == FsRunEvaluate \/ FsRunInvoke

SpecLinks == InitLinks /\ [][NextLinks]_vars

\* C36: whenever an fs.* tool is invoked through run_plan, the canonical form
\* of each of its path arguments, resolved at that moment, lies within the
\* declared fs_roots, also after earlier steps of the plan changed the
\* filesystem.
C36_Original ==
    fsRun # NoFsRun =>
        \A k \in 1..Len(fsRun.calls) : \A j \in 1..Len(fsRun.calls[k].paths) :
            WithinRoot(PathStr(fsRun.calls[k].paths[j]), PathStr(LinkRoot))

----------------------------------------------------------------------------
(* Args validation inside the executor's loop (executor.py 41-99).         *)

\* the args of step i pass the args_schema of its tool
ArgsPass(i) ==
    /\ ToolKnown(plan.steps[i].tool.tool_id)
    /\ ArgsValid(Registry[plan.steps[i].tool.tool_id].args_schema, plan.steps[i].tool.args)

\* C37: args validation is per step: when step k fails it (tool.args_invalid),
\* the tools of steps 1..k-1 have been invoked and their effects remain, the
\* tools of steps k..n are never invoked; and no tool is ever invoked with
\* args that fail its args_schema.
C37_ArgsValidatedPerStep ==
    /\ (pc = "raised" /\ raised.code = "tool.args_invalid") =>
          /\ stepIdx \in 1..Len(plan.steps)
          /\ ArgsFail(stepIdx)
          /\ invoked = UpTo(stepIdx - 1)
          /\ effects = UpTo(stepIdx - 1)
          /\ Len(results) = stepIdx - 1
          /\ ~ENABLED Next
    /\ \A i \in 1..Len(invoked) : ArgsPass(invoked[i])

\* a commit run in which the first step's tool ran and left its effect, and
\* the second step was refused for its args
C37_Witness ==
    /\ pc = "raised" /\ raised.code = "tool.args_invalid"
    /\ ~ctx.dry_run
    /\ Len(plan.steps) = 2 /\ stepIdx = 2
    /\ invoked = <<1>> /\ effects = <<1>> /\ Len(results) = 1

----------------------------------------------------------------------------
(* The tidy planner on entry names that hold path separators and on        *)
(* configs whose move_to names no folder                                   *)
(* (plugins/builtin_desktop/planner.py 528-531, 565-610).                  *)

\* names of the snapshot: a plain one, one that climbs out through "..",
\* one that starts with a separator
NamedEntryInputs ==
    { [name |-> <<"p", ".", "j">>, is_file |-> TRUE, is_dir |-> FALSE],
      [name |-> <<"a", "/", ".", ".", "/", ".", ".", "/", ".", ".", "/", "b">>, is_file |-> TRUE, is_dir |-> FALSE],
      [name |-> <<"/", "x">>, is_file |-> TRUE, is_dir |-> FALSE] }

NamedEntriesInputs == UNION {[1..n -> NamedEntryInputs] : n \in 0..MaxEntries}

\* configs: those above, and ones whose folders section has no downloads key
\* although defaults.unmatched_action.move_to (and some rules) name it
NamedCfgInputs ==
    CfgInputs \cup
    { [folders |-> (KeyImages :> <<"P">>), rules |-> r, unmatched_move_to |-> KeyDownloads] :
        r \in UNION {[1..n -> RuleInputs] : n \in 0..MaxRules} }

\* BuiltinDesktopPlanner.plan for desktop.tidy.preview / desktop.tidy.run on
\* such a snapshot
PlanTidyNamed ==
    /\ tidy = NoTidy
    /\ \E cfg \in NamedCfgInputs, entries \in NamedEntriesInputs, preview \in BOOLEAN :
          tidy' = [cfg |-> cfg, entries |-> entries, include_dirs |-> FALSE]
                  @@ PlanTidy(cfg, entries, FALSE, preview)
    /\ UNCHANGED <<kernelVars, scopeVars, plannerVars, fileVars, hostVars, envVars>>

NextTidyNamed == PlanTidyNamed

SpecTidyNamed == InitTidy /\ [][NextTidyNamed]_vars

\* the move_to keys a config names: those of its rules and the default's
MoveToKeys(cfg) ==
    {cfg.rules[k].action.move_to : k \in {j \in 1..Len(cfg.rules) : cfg.rules[j].action.move_to # <<>>}}
    \cup {cfg.unmatched_move_to}

\* some move_to of the config is not a key of folders
DanglingMoveTo(cfg) == \E key \in MoveToKeys(cfg) : key \notin DOMAIN cfg.folders

\* C32: a config in which a rule's move_to or the default's move_to is not a
\* key of folders is rejected: plan raises a config validation error and
\* returns no plan.
C32_Original ==
    tidy # NoTidy /\ DanglingMoveTo(tidy.cfg) => tidy.status = "raised"

\* C38: every fs.move step of a generated plan has its from path inside
\* root.path and its to path inside root.staging_dir after canonicalization,
\* whatever the entry names and the folder mapping.
C38_Original ==
    TidyReturned =>
        \A k \in 1..Len(tidy.steps) :
            tidy.steps[k].tool_id = "fs.move" =>
                /\ WithinRoot(NormalizePath(tidy.steps[k].from), NormalizePath(RootPath))
                /\ WithinRoot(NormalizePath(tidy.steps[k].to), NormalizePath(StagingDir))

----------------------------------------------------------------------------
(* Two fs.move calls in commit mode on one filesystem (tools/fs/move.py    *)
(* 91-108).  The existence checks of lines 91-103 and the rename of line   *)
(* 107 are separate system calls: the other call may run between them.     *)
(* Path.rename replaces an existing file at the destination.               *)

MoverIds == {1, 2}

\* the args of the two calls: different sources, one destination
MoverArgsInputs ==
    [from : {FsPath("e", NameAT), FsPath("d", NameB)}, to : {FsPath("d", NameBT)},
     on_conflict : {"error", "overwrite", "skip", "suffix_increment"}, overwrite : {FALSE}]

InitMovers ==
    /\ KernelIdle
    /\ ScopeIdle
    /\ PlannerIdle
    /\ FileIdle
    /\ HostIdle
    /\ TidyIdle
    /\ pluginReg = NoPluginReg
    /\ contracts = NoContracts
    /\ fsRun = NoFsRun
    /\ \E files \in {{FsPath("e", NameAT), FsPath("d", NameB)},
                     {FsPath("e", NameAT), FsPath("d", NameB), FsPath("d", NameBT)}},
          a1 \in MoverArgsInputs, a2 \in MoverArgsInputs :
          /\ a1.from # a2.from
          /\ movers = [pc |-> "run",
                       h |-> [fs |-> [q \in files |-> ContentOf(q)], dirs |-> {"d", "e"}, sent |-> 0, conns |-> 0],
                       call |-> [m \in MoverIds |->
                                    [args |-> IF m = 1 THEN a1 ELSE a2, pc |-> "start",
                                     target |-> FsPath("", <<>>), replaced |-> FALSE]]]

\* lines 91-103: the source check, the resolution of the destination and the
\* conflict check, on the filesystem as it is now
MoverCheck(m) ==
    /\ movers.pc = "run"
    /\ movers.call[m].pc = "start"
    /\ LET args == movers.call[m].args
           on_conflict == OnConflict(args)
           inc == WithSuffixIncrement(movers.h, args.to)
           dst_exists == Exists(movers.h, args.to)
           ends == \/ ~Exists(movers.h, args.from)
                   \/ dst_exists /\ on_conflict \in {"skip", "error"}
                   \/ dst_exists /\ on_conflict = "suffix_increment" /\ ~inc.found
       IN movers' = [movers EXCEPT
                        !.call[m].pc = IF ends THEN "done" ELSE "rename",
                        !.call[m].target = IF dst_exists /\ on_conflict = "suffix_increment"
                                           THEN inc.path ELSE args.to]
    /\ UNCHANGED <<kernelVars, scopeVars, plannerVars, fileVars, hostVars, tidyVars, pluginReg, contracts, fsRun>>

\* lines 106-107: resolved_dst.parent.mkdir; src.rename(resolved_dst)
MoverRename(m) ==
    /\ movers.pc = "run"
    /\ movers.call[m].pc = "rename"
    /\ LET c == movers.call[m]
       IN IF ~Exists(movers.h, c.args.from)
          THEN movers' = [movers EXCEPT !.call[m].pc = "done"]
          ELSE movers' = [movers EXCEPT
                             !.h = Rename(movers.h, c.args.from, c.target),
                             !.call[m].pc = "done",
                             !.call[m].replaced = Exists(movers.h, c.target) /\ c.target # c.args.from]
    /\ UNCHANGED <<kernelVars, scopeVars, plannerVars, fileVars, hostVars, tidyVars, pluginReg, contracts, fsRun>>

NextMovers == \E m \in MoverIds : MoverCheck(m) \/ MoverRename(m)

SpecMovers == InitMovers /\ [][NextMovers]_vars

\* C39: fs.move replaces an existing destination only when the conflict policy
\* in force is overwrite, also when another fs.move call creates the path
\* between the existence check and the rename.
C39_Original ==
    movers # NoMovers =>
        \A m \in MoverIds :
            movers.call[m].replaced => OnConflict(movers.call[m].args) = "overwrite"

----------------------------------------------------------------------------
(* The dry-run report of fs.move against the commit run on the same        *)
(* arguments and the same host (tools/fs/move.py 59-89 and 91-108).        *)

\* fs.move returned its dry-run report
DryRunMoveReported == DryRunMove /\ toolOut.status = "returned"

\* run(args, dry_run=False) on the host the dry run saw
CommitOfDryRun == FsMove(toolOut.before, toolOut.args, FALSE)

\* the report agrees with the commit run: would_skip iff it returns skipped,
\* would_error iff it raises, would_move iff it renames the source, to the
\* path resolved_to
ReportPredictsCommit ==
    LET commit == CommitOfDryRun
        renamed == commit.status = "returned" /\ ~commit.out.skipped
    IN /\ toolOut.out.would_skip <=> (commit.status = "returned" /\ commit.out.skipped)
       /\ toolOut.out.would_error <=> commit.status = "raised"
       /\ toolOut.out.would_move <=> renamed
       /\ renamed => /\ commit.out.to = toolOut.out.resolved_to
                     /\ commit.hostState = Rename(toolOut.before, toolOut.args.from, toolOut.out.resolved_to)
       /\ ~renamed => commit.hostState = toolOut.before

\* C40 as stated: the dry-run report of fs.move predicts the commit outcome
\* for the same arguments and filesystem state.
C40_Original == DryRunMoveReported => ReportPredictsCommit

\* C40, restricted to where it holds: when the source exists, the dry-run
\* report of fs.move predicts the commit outcome for the same arguments and
\* filesystem state: would_skip iff commit returns skipped, would_error iff
\* commit raises, would_move iff commit renames the source, and then to
\* resolved_to.  With a missing source
\* the report has src_exists false and the same would_* values as with the
\* source present, and commit raises FileNotFoundError.
C40_DryRunPredictsCommit ==
    DryRunMoveReported =>
        IF Exists(toolOut.before, toolOut.args.from)
        THEN ReportPredictsCommit
        ELSE /\ ~toolOut.out.src_exists
             /\ CommitOfDryRun.status = "raised"
             /\ CommitOfDryRun.error = "FileNotFoundError"

\* a dry run of an existing a.t onto an existing b.t with suffix_increment
\* reported would_move to b(1).t, and the commit run moves it there
C40_Witness ==
    /\ DryRunMoveReported
    /\ toolOut.args.from = FsPath("e", NameAT)
    /\ toolOut.args.to = FsPath("d", NameBT)
    /\ Exists(toolOut.before, toolOut.args.from)
    /\ Exists(toolOut.before, toolOut.args.to)
    /\ OnConflict(toolOut.args) = "suffix_increment"
    /\ toolOut.out.would_move
    /\ toolOut.out.resolved_to = Candidate(FsPath("d", NameBT), 1)
    /\ CommitOfDryRun.status = "returned"
    /\ Exists(CommitOfDryRun.hostState, Candidate(FsPath("d", NameBT), 1))

====
